---- MODULE Spec2Model ----
(***************************************************************************)
(* A model of the syzygy runtime: the effect queue and the drain loop of   *)
(* Syzygy::handle_effects (src/src/syzygy.rs, src/src/dispatch.rs) and the *)
(* event bus registry of syzygy_core (crates/syzygy_core/src/event_bus.rs).*)
(*                                                                         *)
(* Spec    : the Runtime thread, producers and worker threads around the   *)
(*           effect queue.                                                 *)
(* BusSpec : subscribe / unsubscribe / emit / pop / handle on one EventBus.*)
(* SnapSpec  : the Runtime thread writing the Model and taking snapshots.  *)
(* CloseSpec : senders and workers around a Runtime that may be dropped.   *)
(* ResSpec   : SyzygyBuilder::resource / build, then the built Runtime:   *)
(*             lookups, effects, tasks and writes of its resources.        *)
(* DeferSpec : defer / Deferred::abort / Drop for Deferred.                *)
(* SyncSpec  : dispatch_sync handles, waited on by callers or the Runtime. *)
(* TaskSpec  : one ThreadTask / AsyncTask from new to its completion.      *)
(* DrainSpec : a drain without concurrent producers, with fairness.        *)
(* LockSpec  : threads calling subscribe / unsubscribe / handle on clones  *)
(*             of one EventBus, step by step around its RwLock.            *)
(* LoopSpec  : the drain fed by effects that return themselves.            *)
(* RaceSpec  : batches of two task effects, their workers and the drain.   *)
(***************************************************************************)
EXTENDS Integers, Sequences, FiniteSets, TLC

VARIABLES
    model,      \* TestModel.counter, owned by the Runtime
    queue,      \* the effect channel: a sequence of batches (Effects)
    pc,         \* position of the Runtime thread
    cur,        \* effects of the batch being iterated that are not yet run
    ret,        \* the batch returned by the effect that has just run
    handles,    \* one-shot channels created by dispatch_sync
    tasks,      \* worker threads spawned by ThreadTask::perform
    nextB,      \* number given to the next batch that is created
    ncalls,     \* number of dispatch / trigger / dispatch_sync / model_mut calls
    direct,     \* number of direct model_mut() increments so far
    executed,   \* history: the effects run by handle_effects, in order
    arrived,    \* history: the batches in the order they reached the queue
    pendingAt,  \* history: follow-up batch number -> effects pending at its push
    registry,   \* EventBus.handlers: EventType -> Vec<EventHandler>
    events,     \* the event channel: a sequence of (EventType, payload)
    nemit,      \* number of emit calls so far
    nsubs,      \* number of subscriptions made so far
    snapshots,  \* the snapshots create_snapshot has returned, oldest first
    closed,     \* TRUE when the receiving end of the effect channel is gone
    builder,    \* SyzygyBuilder: its stage and the history of its calls
    resources,  \* Resources: resource type -> value
    deferred,   \* the Deferred values made by defer, oldest first
    tk,         \* a ThreadTask / AsyncTask from new to its completion
    lk,         \* the RwLock of EventBus.handlers and the threads around it
    popped,     \* the event pop() has returned and handle() has not yet taken
    step        \* the last operation: who took it, its argument and result

vars == <<model, queue, pc, cur, ret, handles, tasks, nextB, ncalls, direct,
          executed, arrived, pendingAt, registry, events, nemit, nsubs,
          snapshots, closed, builder, resources, deferred, tk, lk,
          popped, step>>

effVars == <<model, queue, pc, cur, ret, handles, tasks, nextB, ncalls, direct,
             executed, arrived, pendingAt>>

busVars == <<registry, events, nemit, nsubs>>

extVars == <<tk, lk, popped>>

auxVars == <<snapshots, closed, builder, resources, deferred, extVars>>

----------------------------------------------------------------------------
(* Bounds of the model.                                                    *)

MaxCalls == 2
MaxEmit == 1
MaxSubs == 3
MaxSnaps == 2
MaxProvide == 2
MaxDeferred == 3

----------------------------------------------------------------------------
(* Effects.  An effect is a record: b the number of its batch, i its       *)
(* position in the batch, kind what the closure does, inner the effect     *)
(* wrapped by dispatch_sync, h the one-shot channel the wrapper signals.   *)

\* The batches a caller builds with From / Effects::new().effect(..).spawn(..).
InputBatches ==
    { <<>>, <<"inc">>, <<"chain">>, <<"chain2">>, <<"spawn">>,
      <<"chain", "inc">>, <<"spawn", "inc">> }

\* The effects dispatch_sync is called with.
SyncInner == {"inc", "chain"}

\* Effects::from / .effect / .spawn push to the Vec: position = insertion order.
MkBatch(b, kinds) ==
    [i \in 1..Len(kinds) |-> [b |-> b, i |-> i, kind |-> kinds[i],
                              inner |-> "none", h |-> 0]]

\* The user closure that runs for an effect.
Body(e) == IF e.kind = "sync" THEN e.inner ELSE e.kind

\* increment(): counter += 1.  A trigger closure f(ctx) increments as well.
Mutate(k, m) == IF k \in {"inc", "trigger"} THEN m + 1 ELSE m

\* The batch a closure returns: increment, trigger and task effects return
\* Effects::none(); "chain" returns Effects::from(increment); "chain2" returns
\* a two-effect batch whose first effect chains again; "loop" returns
\* itself again, every time.
FollowUp(k) ==
    CASE k = "chain"  -> <<"inc">>
      [] k = "chain2" -> <<"chain", "inc">>
      [] k = "loop"   -> <<"loop">>
      [] OTHER        -> <<>>

----------------------------------------------------------------------------
(* The channel.                                                            *)

\* EffectSender::dispatch: tx.send(effects) on the unbounded channel.
send(q, batch) == Append(q, batch)

\* EffectsQueue::push, called by handle_effects: "Add new messages to end of
\* queue".
push(q, batch) == Append(q, batch)

\* Mutant of next_batch: the newest batch is taken first.
next_batch_lifo(q) ==
    IF q = <<>> THEN [some |-> FALSE, batch |-> <<>>, rest |-> q]
    ELSE [some |-> TRUE, batch |-> q[Len(q)], rest |-> SubSeq(q, 1, Len(q) - 1)]

\* crossbeam_channel::Receiver::try_recv: a queued message is delivered
\* whether or not senders remain; an empty channel reports Disconnected
\* when every sender is gone and Empty otherwise.
try_recv(q, gone) ==
    IF q # <<>> THEN "Ok" ELSE IF gone THEN "Disconnected" ELSE "Empty"

\* Mutant of next_batch: an empty queue yields an empty batch.
next_batch_spin(q) ==
    IF q = <<>> THEN [some |-> TRUE, batch |-> <<>>, rest |-> q]
    ELSE [some |-> TRUE, batch |-> Head(q), rest |-> Tail(q)]

\* EffectReceiver::next_batch: rx.try_recv(); None when nothing is queued.
next_batch(q) ==
    IF q = <<>> THEN [some |-> FALSE, batch |-> <<>>, rest |-> q]
    ELSE [some |-> TRUE, batch |-> Head(q), rest |-> Tail(q)]

\* Mutant of LoopPc: the loop never goes back to poll the queue.
LoopPcStay(rest) == "batch"

\* Mutant of LoopPc: `if let` in place of `while let`, one batch per call.
LoopPcOnce(rest) == IF rest = <<>> THEN "idle" ELSE "batch"

\* Where the Runtime continues with `rest` left to iterate: the for loop goes
\* on while effects remain, then the while-let polls the queue again.
LoopPc(rest) == IF rest = <<>> THEN "poll" ELSE "batch"

Flatten(ss) ==
    LET F[n \in 0..Len(ss)] == IF n = 0 THEN <<>> ELSE F[n - 1] \o ss[n]
    IN F[Len(ss)]

Range(s) == {s[n] : n \in 1..Len(s)}

Did(op, actor, arg, result) ==
    [op |-> op, actor |-> actor, arg |-> arg, result |-> result]

----------------------------------------------------------------------------
(* Resources: a map from resource type to value.                           *)

ResTypes == {"R1", "R2"}

ResValues == {"a", "b"}

\* Resources::insert(resource): the map and what insert reports.
insert(rs, t, v) ==
    IF t \in DOMAIN rs THEN [map |-> rs, result |-> "Err"]
    ELSE [map |-> (t :> v) @@ rs, result |-> "Ok"]

\* ResourceAccess::try_resource::<T>()
try_resource(rs, t) == IF t \in DOMAIN rs THEN <<"Some", rs[t]>> ELSE <<"None">>

\* ResourceAccess::resource::<T>()
resource(rs, t) == IF t \in DOMAIN rs THEN rs[t] ELSE "panic"

\* What the closure of an effect does to the Runtime's resources through
\* the &mut Syzygy it receives: "provide" is
\* |s| { s.resources.insert(..); Effects::none() }, the others leave the
\* field alone.
Provide(k, rs) == IF k = "provide" THEN insert(rs, "R2", "b").map ELSE rs

----------------------------------------------------------------------------
(* Callers of the DispatchEffect capability: the Runtime's own thread       *)
(* between drains, or any thread holding a context with a clone of the     *)
(* sender, at any time.                                                    *)

Enqueue(batch) ==
    /\ queue' = send(queue, batch)
    /\ arrived' = Append(arrived, batch)
    /\ nextB' = nextB + 1
    /\ ncalls' = ncalls + 1

\* DispatchEffect::dispatch(effects)
Dispatch ==
    \E kinds \in InputBatches :
        /\ ncalls < MaxCalls
        /\ Enqueue(MkBatch(nextB, kinds))
        /\ step' = Did("dispatch", "caller", kinds, "ok")
        /\ UNCHANGED <<model, pc, cur, ret, handles, tasks, direct, executed,
                       pendingAt>>
        /\ UNCHANGED <<busVars, auxVars>>

\* DispatchEffect::dispatch of a batch with an effect that re-dispatches
\* itself for ever.
DispatchLoop ==
    \E kinds \in {<<"loop">>, <<"loop", "inc">>} :
        /\ ncalls < MaxCalls
        /\ Enqueue(MkBatch(nextB, kinds))
        /\ step' = Did("dispatch", "caller", kinds, "ok")
        /\ UNCHANGED <<model, pc, cur, ret, handles, tasks, direct, executed,
                       pendingAt>>
        /\ UNCHANGED <<busVars, auxVars>>

\* DispatchEffect::dispatch of Effects::new().spawn(..).effect(ThreadTask
\* ..perform(..)) as in test_thread_task: one batch, two task effects.
DispatchSpawns ==
    /\ ncalls < MaxCalls
    /\ Enqueue(MkBatch(nextB, <<"spawn", "spawn">>))
    /\ step' = Did("dispatch", "caller", <<"spawn", "spawn">>, "ok")
    /\ UNCHANGED <<model, pc, cur, ret, handles, tasks, direct, executed,
                   pendingAt>>
    /\ UNCHANGED <<busVars, auxVars>>

\* DispatchEffect::dispatch of a batch with an effect whose closure writes
\* the Runtime's resources, alone, before an increment or after a task.
DispatchProvide ==
    \E kinds \in {<<"provide">>, <<"provide", "inc">>, <<"spawn", "provide">>} :
        /\ ncalls < MaxCalls
        /\ Enqueue(MkBatch(nextB, kinds))
        /\ step' = Did("dispatch", "caller", kinds, "ok")
        /\ UNCHANGED <<model, pc, cur, ret, handles, tasks, direct, executed,
                       pendingAt>>
        /\ UNCHANGED <<busVars, auxVars>>

\* DispatchEffect::trigger(f)
Trigger ==
    /\ ncalls < MaxCalls
    /\ Enqueue(MkBatch(nextB, <<"trigger">>))
    /\ step' = Did("trigger", "caller", <<>>, "ok")
    /\ UNCHANGED <<model, pc, cur, ret, handles, tasks, direct, executed,
                   pendingAt>>
    /\ UNCHANGED <<busVars, auxVars>>

\* Mutant of NewHandle: the completion signal is fired when the effect is
\* enqueued.
NewHandleSent == [sent |-> TRUE, rx |-> "held"]

\* oneshot::channel(): nothing sent, the receiver held by the caller.
NewHandle == [sent |-> FALSE, rx |-> "held"]

\* DispatchEffect::dispatch_sync(effect)
DispatchSync ==
    \E k \in SyncInner :
        /\ ncalls < MaxCalls
        /\ handles' = Append(handles, NewHandle)
        /\ Enqueue(<<[b |-> nextB, i |-> 1, kind |-> "sync", inner |-> k,
                      h |-> Len(handles) + 1]>>)
        /\ step' = Did("dispatch_sync", "caller", k, Len(handles) + 1)
        /\ UNCHANGED <<model, pc, cur, ret, tasks, direct, executed, pendingAt>>
        /\ UNCHANGED <<busVars, auxVars>>

\* The caller drops the oneshot::Receiver.
DropHandle ==
    \E h \in 1..Len(handles) :
        /\ handles[h].rx = "held"
        /\ handles' = [handles EXCEPT ![h].rx = "dropped"]
        /\ step' = Did("drop_handle", "caller", h, "ok")
        /\ UNCHANGED <<model, queue, pc, cur, ret, tasks, nextB, ncalls, direct,
                       executed, arrived, pendingAt>>
        /\ UNCHANGED <<busVars, auxVars>>

\* Where a thread stands when it calls into tokio: on a plain thread, or on
\* one that drives a tokio runtime (the body of a #[tokio::test]).
RecvContexts == {"plain", "tokio"}

\* The oneshot Sender of handle h still exists: it is owned by the wrapper
\* effect, which is queued or in the batch being iterated, and is consumed by
\* the wrapper's send.
SenderHeld(h) ==
    /\ ~handles[h].sent
    /\ \E e \in Range(Flatten(queue)) \cup Range(cur) :
          e.kind = "sync" /\ e.h = h

\* rx.blocking_recv() on a caller's thread.  Inside a tokio runtime the call
\* panics before it looks at the channel and the unwinding drops the
\* receiver; on a plain thread it returns Ok once the value has been sent
\* and Err(RecvError) once the Sender was dropped without sending.
Recv ==
    \E h \in 1..Len(handles), ctx \in RecvContexts :
        /\ handles[h].rx = "held"
        /\ IF ctx = "tokio"
           THEN /\ handles' = [handles EXCEPT ![h].rx = "dropped"]
                /\ step' = Did("recv", "caller", h, "panic")
           ELSE /\ handles[h].sent \/ ~SenderHeld(h)
                /\ handles' = [handles EXCEPT ![h].rx =
                                   IF handles[h].sent THEN "received"
                                                      ELSE "failed"]
                /\ step' = Did("recv", "caller", h,
                               IF handles[h].sent THEN "ok" ELSE "err")
        /\ UNCHANGED <<model, queue, pc, cur, ret, tasks, nextB, ncalls, direct,
                       executed, arrived, pendingAt>>
        /\ UNCHANGED <<busVars, auxVars>>

----------------------------------------------------------------------------
(* The Runtime thread.                                                     *)

\* ModelModify::model_mut on the Runtime, outside handle_effects.
ModelMut ==
    /\ pc = "idle"
    /\ ncalls < MaxCalls
    /\ model' = model + 1
    /\ direct' = direct + 1
    /\ ncalls' = ncalls + 1
    /\ step' = Did("model_mut", "runtime", <<>>, "ok")
    /\ UNCHANGED <<queue, pc, cur, ret, handles, tasks, nextB, executed,
                   arrived, pendingAt>>
    /\ UNCHANGED <<busVars, auxVars>>

\* Mutant of RuntimeRecv: a Runtime that finds the handle incomplete drains
\* the queue instead of parking.
RuntimeRecvPolls ==
    \E h \in 1..Len(handles), ctx \in RecvContexts :
        /\ <<pc, handles[h].rx, ctx>>
              \in {<<"idle", "held", "plain">>, <<"idle", "held", "tokio">>,
                   <<"blocked", "awaited", "plain">>}
        /\ IF ctx = "tokio"
           THEN /\ handles' = [handles EXCEPT ![h].rx = "dropped"]
                /\ pc' = "panicked"
                /\ step' = Did("blocking_recv", "runtime", h, "panic")
           ELSE IF handles[h].sent
           THEN /\ handles' = [handles EXCEPT ![h].rx = "received"]
                /\ pc' = "idle"
                /\ step' = Did("blocking_recv", "runtime", h, "ok")
           ELSE IF ~SenderHeld(h)
           THEN /\ handles' = [handles EXCEPT ![h].rx = "failed"]
                /\ pc' = "idle"
                /\ step' = Did("blocking_recv", "runtime", h, "err")
           ELSE /\ handles' = [handles EXCEPT ![h].rx = "awaited"]
                /\ pc' = "poll"
                /\ step' = Did("blocking_recv", "runtime", h, "blocked")
        /\ closed' = (closed \/ ctx = "tokio")
        /\ queue' = IF ctx = "tokio" THEN <<>> ELSE queue
        /\ UNCHANGED <<model, cur, ret, tasks, nextB, ncalls, direct,
                       executed, arrived, pendingAt>>
        /\ UNCHANGED <<busVars, snapshots, builder, resources, deferred,
                       extVars>>

\* rx.blocking_recv() called on the Runtime thread (test_sync_dispatch).
\* Inside a tokio runtime, as in that test, the call panics and the thread
\* unwinds, dropping the receiver and the Runtime it owns, the batches
\* still queued with it.  On a plain thread it returns Ok when the value
\* has been sent, Err when the Sender is gone, and stays parked in the call,
\* looking again, otherwise.
RuntimeRecv ==
    \E h \in 1..Len(handles), ctx \in RecvContexts :
        /\ <<pc, handles[h].rx, ctx>>
              \in {<<"idle", "held", "plain">>, <<"idle", "held", "tokio">>,
                   <<"blocked", "awaited", "plain">>}
        /\ IF ctx = "tokio"
           THEN /\ handles' = [handles EXCEPT ![h].rx = "dropped"]
                /\ pc' = "panicked"
                /\ step' = Did("blocking_recv", "runtime", h, "panic")
           ELSE IF handles[h].sent
           THEN /\ handles' = [handles EXCEPT ![h].rx = "received"]
                /\ pc' = "idle"
                /\ step' = Did("blocking_recv", "runtime", h, "ok")
           ELSE IF ~SenderHeld(h)
           THEN /\ handles' = [handles EXCEPT ![h].rx = "failed"]
                /\ pc' = "idle"
                /\ step' = Did("blocking_recv", "runtime", h, "err")
           ELSE /\ handles' = [handles EXCEPT ![h].rx = "awaited"]
                /\ pc' = "blocked"
                /\ step' = Did("blocking_recv", "runtime", h, "blocked")
        /\ closed' = (closed \/ ctx = "tokio")
        /\ queue' = IF ctx = "tokio" THEN <<>> ELSE queue
        /\ UNCHANGED <<model, cur, ret, tasks, nextB, ncalls, direct,
                       executed, arrived, pendingAt>>
        /\ UNCHANGED <<busVars, snapshots, builder, resources, deferred,
                       extVars>>

\* Whether every EffectSender of the channel is gone while the Runtime
\* drains: never, the Runtime keeps a sender beside its receiver for as long
\* as it lives.
SendersGone == FALSE

\* Syzygy::handle_effects is entered.
HandleEffects ==
    /\ pc = "idle"
    /\ pc' = "poll"
    /\ step' = Did("handle_effects", "runtime", <<>>, "ok")
    /\ UNCHANGED <<model, queue, cur, ret, handles, tasks, nextB, ncalls, direct,
                   executed, arrived, pendingAt>>
    /\ UNCHANGED <<busVars, auxVars>>

\* while let Some(batch) = self.effects_queue.next_batch()
NextBatch ==
    /\ pc = "poll"
    /\ LET r == next_batch(queue) IN
        IF r.some
        THEN /\ queue' = r.rest
             /\ cur' = r.batch
             /\ pc' = LoopPc(r.batch)
             /\ step' = Did("next_batch", "runtime", <<>>, "some")
        ELSE /\ pc' = "idle"
             /\ step' = Did("return", "runtime", <<try_recv(queue, SendersGone)>>,
                            "none")
             /\ UNCHANGED <<queue, cur>>
    /\ UNCHANGED <<model, ret, handles, tasks, nextB, ncalls, direct, executed,
                   arrived, pendingAt>>
    /\ UNCHANGED <<busVars, auxVars>>

\* The effect was built by AsyncTask::perform, UnfinishedAsyncEffects::
\* perform or ::done: its closure calls tokio::spawn.
TokioSpawn(e) ==
    /\ Body(e) = "spawn"
    /\ tk.stage = "queued"
    /\ tk.b = e.b
    /\ tk.flavour \in {"async", "unfinished"}

\* let new_messages = (effect)(self): the closure runs with &mut Syzygy.
\* ThreadTask::perform's closure takes the task and spawns the worker with
\* std::thread::spawn.  The closures of the async tasks call tokio::spawn,
\* which panics on a thread outside a tokio runtime: the task taken by the
\* closure is dropped, nothing is spawned, and the unwinding leaves
\* handle_effects and drops the rest of the batch.
CallEffect ==
    /\ pc = "batch"
    /\ cur # <<>>
    /\ \E ctx \in RecvContexts :
        LET e == Head(cur)
            k == Body(e)
            f == FollowUp(k) IN
        IF TokioSpawn(e) /\ ctx = "plain"
        THEN /\ pc' = "idle"
             /\ cur' = <<>>
             /\ tk' = [tk EXCEPT !.stage = "panicked"]
             /\ step' = Did("call_effect", "runtime", e, "panic")
             /\ UNCHANGED <<model, executed, ret, nextB, tasks, resources>>
        ELSE /\ model' = Mutate(k, model)
             /\ executed' = Append(executed, e)
             /\ ret' = MkBatch(nextB, f)
             /\ nextB' = IF f = <<>> THEN nextB ELSE nextB + 1
             /\ tasks' = IF k = "spawn"
                         THEN Append(tasks, [pc |-> "spawned", by |-> e,
                                             out |-> 0, runs |-> 0,
                                             performs |-> 0])
                         ELSE tasks
             /\ resources' = Provide(k, resources)
             /\ pc' = IF e.kind = "sync" THEN "sync_send" ELSE "ret"
             /\ step' = Did("call_effect", "runtime", e, f)
             /\ UNCHANGED <<cur, tk>>
    /\ UNCHANGED <<queue, handles, ncalls, direct, arrived, pendingAt>>
    /\ UNCHANGED <<busVars, snapshots, closed, builder, deferred, lk, popped>>

\* Mutant of SyncSend: the follow-up is enqueued before the handle is
\* completed.
SyncSendAfterPush ==
    /\ pc = "sync_send"
    /\ LET h == Head(cur).h IN
        /\ handles' = [handles EXCEPT ![h].sent = (handles[h].rx # "dropped")]
        /\ step' = Did("sync_send", "runtime", h,
                       IF handles[h].rx # "dropped" THEN "ok" ELSE "err")
    /\ pc' = "ret"
    /\ IF ret # <<>>
       THEN /\ queue' = push(queue, ret)
            /\ arrived' = Append(arrived, ret)
            /\ pendingAt' = Append(pendingAt,
                   [b |-> ret[1].b, by |-> Head(cur),
                    pending |-> Range(Tail(cur)) \cup Range(Flatten(queue))])
       ELSE UNCHANGED <<queue, arrived, pendingAt>>
    /\ ret' = <<>>
    /\ UNCHANGED <<model, cur, tasks, nextB, ncalls, direct, executed>>
    /\ UNCHANGED <<busVars, auxVars>>

\* Mutant of SyncSend: the send is unwrapped, so a failed send unwinds out of
\* handle_effects.
SyncSendUnwrap ==
    /\ pc = "sync_send"
    /\ LET h == Head(cur).h IN
        /\ handles' = [handles EXCEPT ![h].sent = (handles[h].rx # "dropped")]
        /\ step' = Did("sync_send", "runtime", h,
                       IF handles[h].rx # "dropped" THEN "ok" ELSE "err")
        /\ pc' = IF handles[h].rx # "dropped" THEN "ret" ELSE "idle"
        /\ cur' = IF handles[h].rx # "dropped" THEN cur ELSE <<>>
        /\ ret' = IF handles[h].rx # "dropped" THEN ret ELSE <<>>
    /\ UNCHANGED <<model, queue, tasks, nextB, ncalls, direct,
                   executed, arrived, pendingAt>>
    /\ UNCHANGED <<busVars, auxVars>>

\* dispatch_sync's wrapper: let _ = tx.send(()); the send fails when the
\* receiver is gone.
SyncSend ==
    /\ pc = "sync_send"
    /\ LET h == Head(cur).h IN
        /\ handles' = [handles EXCEPT ![h].sent = (handles[h].rx # "dropped")]
        /\ step' = Did("sync_send", "runtime", h,
                       IF handles[h].rx # "dropped" THEN "ok" ELSE "err")
    /\ pc' = "ret"
    /\ UNCHANGED <<model, queue, cur, ret, tasks, nextB, ncalls, direct,
                   executed, arrived, pendingAt>>
    /\ UNCHANGED <<busVars, auxVars>>

\* What is common to the mutants of PushFollowUp: the bookkeeping of the
\* returned batch.
FollowUpNoted ==
    /\ pc = "ret"
    /\ IF ret # <<>>
       THEN /\ arrived' = Append(arrived, ret)
            /\ pendingAt' = Append(pendingAt,
                   [b |-> ret[1].b, by |-> Head(cur),
                    pending |-> Range(Tail(cur)) \cup Range(Flatten(queue))])
       ELSE UNCHANGED <<arrived, pendingAt>>
    /\ ret' = <<>>
    /\ step' = Did("push_follow_up", "runtime", ret, "ok")
    /\ UNCHANGED <<model, handles, tasks, nextB, ncalls, direct, executed>>
    /\ UNCHANGED <<busVars, auxVars>>

\* Mutant of PushFollowUp: the follow-up goes to the head of the queue.
PushFollowUpFront ==
    /\ FollowUpNoted
    /\ queue' = IF ret # <<>> THEN <<ret>> \o queue ELSE queue
    /\ cur' = Tail(cur)
    /\ pc' = LoopPc(Tail(cur))

\* Mutant of PushFollowUp: the follow-up is spliced in after its effect.
PushFollowUpSplice ==
    /\ FollowUpNoted
    /\ queue' = queue
    /\ cur' = ret \o Tail(cur)
    /\ pc' = LoopPc(ret \o Tail(cur))

\* Mutant of PushFollowUp: the loop steps over the effect that follows.
PushFollowUpSkip ==
    /\ FollowUpNoted
    /\ queue' = IF ret # <<>> THEN push(queue, ret) ELSE queue
    /\ cur' = IF Len(cur) > 1 THEN Tail(Tail(cur)) ELSE Tail(cur)
    /\ pc' = LoopPc(cur')

\* if !new_messages.is_empty() { self.effects_queue.push(new_messages) }, and
\* the for loop moves to the next effect of the batch.
PushFollowUp ==
    /\ pc = "ret"
    /\ IF ret # <<>>
       THEN /\ queue' = push(queue, ret)
            /\ arrived' = Append(arrived, ret)
            /\ pendingAt' = Append(pendingAt,
                   [b |-> ret[1].b, by |-> Head(cur),
                    pending |-> Range(Tail(cur)) \cup Range(Flatten(queue))])
       ELSE UNCHANGED <<queue, arrived, pendingAt>>
    /\ cur' = Tail(cur)
    /\ ret' = <<>>
    /\ pc' = LoopPc(Tail(cur))
    /\ step' = Did("push_follow_up", "runtime", ret, "ok")
    /\ UNCHANGED <<model, handles, tasks, nextB, ncalls, direct, executed>>
    /\ UNCHANGED <<busVars, auxVars>>

----------------------------------------------------------------------------
(* Worker threads.  A task record: pc the position of the worker, by the   *)
(* effect that spawned it, out the number of the batch it dispatched, runs *)
(* how many times its inner function ran, performs how many times the      *)
(* perform callback was applied.                                           *)

\* Mutant of TaskRun: the inner function is run a second time.
TaskRunAgain ==
    \E t \in 1..Len(tasks) :
        /\ tasks[t].pc = "spawned"
        /\ tasks' = [tasks EXCEPT ![t].pc = IF tasks[t].runs = 0 THEN "spawned" ELSE "ran",
                                  ![t].runs = @ + 1]
        /\ step' = Did("task_run", "worker", t, "ok")
        /\ UNCHANGED <<model, queue, pc, cur, ret, handles, nextB, ncalls,
                       direct, executed, arrived, pendingAt>>
        /\ UNCHANGED <<busVars, auxVars>>

\* let result = (task)(async_ctx)
TaskRun ==
    \E t \in 1..Len(tasks) :
        /\ tasks[t].pc = "spawned"
        /\ tasks' = [tasks EXCEPT ![t].pc = "ran", ![t].runs = @ + 1]
        /\ step' = Did("task_run", "worker", t, "ok")
        /\ UNCHANGED <<model, queue, pc, cur, ret, handles, nextB, ncalls,
                       direct, executed, arrived, pendingAt>>
        /\ UNCHANGED <<busVars, auxVars>>

\* Mutant of TaskDispatch: the worker dispatches the completion batch without
\* waiting for the inner function.
TaskDispatchBeforeRun ==
    \E t \in 1..Len(tasks) :
        /\ tasks[t].pc = "spawned"
        /\ tasks' = [tasks EXCEPT ![t].pc = "done", ![t].out = nextB,
                                  ![t].performs = @ + 1]
        /\ queue' = send(queue, MkBatch(nextB, <<"inc">>))
        /\ arrived' = Append(arrived, MkBatch(nextB, <<"inc">>))
        /\ nextB' = nextB + 1
        /\ step' = Did("task_dispatch", "worker", t, "ok")
        /\ UNCHANGED <<model, pc, cur, ret, handles, ncalls, direct, executed,
                       pendingAt>>
        /\ UNCHANGED <<busVars, auxVars>>

\* Mutant of TaskDispatch: the worker applies the increment to the Model
\* itself.
TaskDispatchWrites ==
    \E t \in 1..Len(tasks) :
        /\ tasks[t].pc = "ran"
        /\ tasks' = [tasks EXCEPT ![t].pc = "done"]
        /\ model' = model + 1
        /\ step' = Did("task_dispatch", "worker", t, "ok")
        /\ UNCHANGED <<queue, arrived, nextB, pc, cur, ret, handles, ncalls,
                       direct, executed, pendingAt>>
        /\ UNCHANGED <<busVars, auxVars>>

\* Mutant of TaskDispatch: the completion batch is sent twice.
TaskDispatchTwice ==
    \E t \in 1..Len(tasks) :
        /\ tasks[t].pc = "ran"
        /\ tasks' = [tasks EXCEPT ![t].pc = "done", ![t].out = nextB,
                                  ![t].performs = @ + 1]
        /\ queue' = send(send(queue, MkBatch(nextB, <<"inc">>)),
                         MkBatch(nextB, <<"inc">>))
        /\ arrived' = arrived \o <<MkBatch(nextB, <<"inc">>),
                                    MkBatch(nextB, <<"inc">>)>>
        /\ nextB' = nextB + 1
        /\ step' = Did("task_dispatch", "worker", t, "ok")
        /\ UNCHANGED <<model, pc, cur, ret, handles, ncalls, direct, executed,
                       pendingAt>>
        /\ UNCHANGED <<busVars, auxVars>>

\* let effects = (f)(result); sender.dispatch(effects), with
\* f = |_| Effects::from(increment)
TaskDispatch ==
    \E t \in 1..Len(tasks) :
        /\ tasks[t].pc = "ran"
        /\ tasks' = [tasks EXCEPT ![t].pc = "done", ![t].out = nextB,
                                  ![t].performs = @ + 1]
        /\ queue' = send(queue, MkBatch(nextB, <<"inc">>))
        /\ arrived' = Append(arrived, MkBatch(nextB, <<"inc">>))
        /\ nextB' = nextB + 1
        /\ step' = Did("task_dispatch", "worker", t, "ok")
        /\ UNCHANGED <<model, pc, cur, ret, handles, ncalls, direct, executed,
                       pendingAt>>
        /\ UNCHANGED <<busVars, auxVars>>

----------------------------------------------------------------------------
(* The event bus.  registry maps an EventType that has an entry in the     *)
(* FxHashMap to its Vec<EventHandler>; a handler is its name, the type T   *)
(* its closure downcasts to and the user closure it wraps (closures are    *)
(* numbered in the order they were subscribed).  An event carries its      *)
(* EventType, its payload and, as history, the closures that were          *)
(* subscribed to its type when it was emitted.                             *)

EventTypes == {"A", "B"}

\* std::any::type_name::<T>()
TypeName(t) == CASE t = "A" -> "app::A" [] t = "B" -> "app::B"

\* The names a caller passes to subscribe; "None" is Option::None.
NameOpts == {"None", "h1", "app::A"}

\* The names a caller passes to unsubscribe.
Names == {"h1", "app::A", "app::B"}

\* handlers.values().any(|handlers| handlers.iter().any(|h| h.name == name))
NameExists(hs, name) ==
    \E k \in DOMAIN hs : \E n \in 1..Len(hs[k]) : hs[k][n].name = name

\* Mutant of EntryPush: the handler is put in front of the Vec.
EntryPushFront(hs, t, h) ==
    (t :> (<<h>> \o (IF t \in DOMAIN hs THEN hs[t] ELSE <<>>))) @@ hs

\* handlers.entry(event_type).or_default().push(EventHandler { name, handler })
EntryPush(hs, t, h) ==
    (t :> Append(IF t \in DOMAIN hs THEN hs[t] ELSE <<>>, h)) @@ hs

\* Mutant of subscribe: the name is looked for under the event type only.
subscribe_per_type(hs, t, nameOpt, f) ==
    LET name == IF nameOpt = "None" THEN TypeName(t) ELSE nameOpt IN
    IF t \in DOMAIN hs /\ \E n \in 1..Len(hs[t]) : hs[t][n].name = name
    THEN [reg |-> hs, result |-> <<"AlreadyExists", name>>]
    ELSE [reg |-> EntryPush(hs, t, [name |-> name, ty |-> t, handler |-> f]),
          result |-> <<"Ok">>]

\* Mutant of subscribe: the entry of the event type is created before the
\* name is checked.
subscribe_entry_first(hs, t, nameOpt, f) ==
    LET name == IF nameOpt = "None" THEN TypeName(t) ELSE nameOpt
        made == (t :> (IF t \in DOMAIN hs THEN hs[t] ELSE <<>>)) @@ hs IN
    IF NameExists(hs, name)
    THEN [reg |-> made, result |-> <<"AlreadyExists", name>>]
    ELSE [reg |-> EntryPush(hs, t, [name |-> name, ty |-> t, handler |-> f]),
          result |-> <<"Ok">>]

\* Mutant of subscribe: an unnamed subscription gets the same default name
\* whatever its event type.
subscribe_anon(hs, t, nameOpt, f) ==
    LET name == IF nameOpt = "None" THEN "anonymous" ELSE nameOpt IN
    IF NameExists(hs, name)
    THEN [reg |-> hs, result |-> <<"AlreadyExists", name>>]
    ELSE [reg |-> EntryPush(hs, t, [name |-> name, ty |-> t, handler |-> f]),
          result |-> <<"Ok">>]

\* EventBus::subscribe::<T>(name, f): the registry and the result.
subscribe(hs, t, nameOpt, f) ==
    LET name == IF nameOpt = "None" THEN TypeName(t) ELSE nameOpt IN
    IF NameExists(hs, name)
    THEN [reg |-> hs, result |-> <<"AlreadyExists", name>>]
    ELSE [reg |-> EntryPush(hs, t, [name |-> name, ty |-> t, handler |-> f]),
          result |-> <<"Ok">>]

\* Mutant of Retain: the predicate is inverted.
RetainOnly(vec, name) == SelectSeq(vec, LAMBDA h : h.name = name)

\* handlers_vec.retain(|handler| handler.name != name)
Retain(vec, name) == SelectSeq(vec, LAMBDA h : h.name # name)

\* EventBus::unsubscribe(name): the registry and the result.
unsubscribe(hs, name) ==
    LET kept == [k \in DOMAIN hs |-> Retain(hs[k], name)]
        found == \E k \in DOMAIN hs : Len(kept[k]) < Len(hs[k]) IN
    [reg |-> kept,
     result |-> IF found THEN <<"Ok">> ELSE <<"HandlerNotFound", name>>]

\* The closure subscribe stores: the user handler runs when the payload
\* downcasts to T.
Downcasts(h, ev) == ev.payload = h.ty

\* Mutant of handle: the loop stops after the first handler.
handle_first_only(hs, ev) ==
    IF ev.ty \notin DOMAIN hs
    THEN [result |-> <<"Unregistered", TypeName(ev.ty)>>, invoked |-> <<>>]
    ELSE [result |-> <<"Ok">>,
          invoked |-> IF hs[ev.ty] = <<>> THEN <<>> ELSE <<hs[ev.ty][1].handler>>]

\* Mutant of handle: the closures that were subscribed when the event was
\* emitted are called, whatever the registry holds now.
handle_snapshot(hs, ev) ==
    IF ev.ty \notin DOMAIN hs
    THEN [result |-> <<"Unregistered", TypeName(ev.ty)>>, invoked |-> <<>>]
    ELSE [result |-> <<"Ok">>,
          invoked |-> [n \in 1..Cardinality(ev.subs) |->
                          CHOOSE f \in ev.subs :
                              Cardinality({g \in ev.subs : g <= f}) = n]]

\* Mutant of handle: every handler of the registry is called and none
\* downcasts.
handle_all(hs, ev) ==
    LET of(k) == IF k \in DOMAIN hs
                 THEN [n \in 1..Len(hs[k]) |-> hs[k][n].handler] ELSE <<>> IN
    IF ev.ty \notin DOMAIN hs
    THEN [result |-> <<"Unregistered", TypeName(ev.ty)>>, invoked |-> <<>>]
    ELSE [result |-> <<"Ok">>, invoked |-> of("A") \o of("B")]

\* EventBus::handle(cx, event_type, event): the result and the user closures
\* that ran, in order.
handle(hs, ev) ==
    IF ev.ty \notin DOMAIN hs
    THEN [result |-> <<"Unregistered", TypeName(ev.ty)>>, invoked |-> <<>>]
    ELSE [result |-> <<"Ok">>,
          invoked |-> [n \in 1..Len(SelectSeq(hs[ev.ty], LAMBDA h : Downcasts(h, ev)))
                         |-> SelectSeq(hs[ev.ty], LAMBDA h : Downcasts(h, ev))[n].handler]]

\* The closures subscribed under event type t.
Subscribed(hs, t) ==
    IF t \in DOMAIN hs THEN {hs[t][n].handler : n \in 1..Len(hs[t])} ELSE {}

Subscribe ==
    \E t \in EventTypes, nameOpt \in NameOpts :
        LET r == subscribe(registry, t, nameOpt, nsubs + 1) IN
        /\ r.result = <<"Ok">> => nsubs < MaxSubs
        /\ registry' = r.reg
        /\ nsubs' = IF r.result = <<"Ok">> THEN nsubs + 1 ELSE nsubs
        /\ step' = Did("subscribe", "bus", <<t, nameOpt>>, r.result)
        /\ UNCHANGED <<events, nemit>>
        /\ UNCHANGED <<effVars, auxVars>>

Unsubscribe ==
    \E name \in Names :
        LET r == unsubscribe(registry, name) IN
        /\ registry' = r.reg
        /\ step' = Did("unsubscribe", "bus", name, r.result)
        /\ UNCHANGED <<events, nemit, nsubs>>
        /\ UNCHANGED <<effVars, auxVars>>

\* EventBus::emit(event): tx.send((EventType::new::<E>(), Box::new(event)))
Emit ==
    \E t \in EventTypes :
        /\ nemit < MaxEmit
        /\ events' = Append(events, [ty |-> t, payload |-> t,
                                     subs |-> Subscribed(registry, t)])
        /\ nemit' = nemit + 1
        /\ step' = Did("emit", "bus", t, <<"Ok">>)
        /\ UNCHANGED <<registry, nsubs>>
        /\ UNCHANGED <<effVars, auxVars>>

\* EventBus::pop(): self.rx.try_recv().ok(), called by the host when it
\* holds no event; the event leaves the channel and is in the host's hands.
Pop ==
    /\ popped = <<>>
    /\ IF events = <<>>
       THEN /\ step' = Did("pop", "bus", <<>>, <<"None">>)
            /\ UNCHANGED <<events, popped>>
       ELSE /\ step' = Did("pop", "bus", <<>>, <<"Some", Head(events)>>)
            /\ popped' = <<Head(events)>>
            /\ events' = Tail(events)
    /\ UNCHANGED <<registry, nemit, nsubs>>
    /\ UNCHANGED <<effVars, snapshots, closed, builder, resources, deferred,
                   tk, lk>>

\* The host passes the event pop() gave it to handle().
PumpEvent ==
    /\ popped # <<>>
    /\ LET r == handle(registry, Head(popped)) IN
        step' = Did("handle", "bus", Head(popped), r)
    /\ popped' = <<>>
    /\ UNCHANGED busVars
    /\ UNCHANGED <<effVars, snapshots, closed, builder, resources, deferred,
                   tk, lk>>

----------------------------------------------------------------------------
(* The registry lock.  lk holds the RwLock of EventBus.handlers (the       *)
(* thread with the write guard, the threads with a read guard), for each   *)
(* thread its position inside subscribe / unsubscribe / handle, the call   *)
(* it is in and the handlers handle() has still to run, the number of      *)
(* calls started and, as history, the calls in the order they completed.   *)
(* A closure here is its number and its body: plain, or one that calls     *)
(* subscribe or unsubscribe on a clone of the same bus.                    *)

MaxLockCalls == 2

Callers == {"t1", "t2"}

Threads == Callers \cup {"pump"}

\* The names callers pass to subscribe under the lock.
LockNameOpts == {"h1"}

Bodies == {"plain", "subscribes", "unsubscribes"}

NoCall ==
    [op |-> "none", t |-> "A", name |-> "", f |-> 0, body |-> "plain",
     conc |-> FALSE]

IdleThread == [pc |-> "idle", call |-> NoCall, todo |-> <<>>]

NoLock ==
    [writer |-> "none", readers |-> {}, th |-> [x \in Threads |-> IdleThread],
     ncalls |-> 0, log |-> <<>>]

\* The calls a thread may start.
CallChoices ==
    {[op |-> "subscribe", t |-> t,
      name |-> IF o = "None" THEN TypeName(t) ELSE o,
      f |-> 0, body |-> b, conc |-> FALSE] :
        t \in EventTypes, o \in LockNameOpts, b \in Bodies}
    \cup {[NoCall EXCEPT !.op = "unsubscribe", !.name = "h1"]}

\* The call a handler body makes on the bus it captured.
NestedCall(h) ==
    IF h.body = "subscribes"
    THEN [NoCall EXCEPT !.op = "subscribe", !.t = "B", !.name = TypeName("B"),
                        !.f = h.id + 10]
    ELSE [NoCall EXCEPT !.op = "unsubscribe", !.name = "h1"]

\* The thread is inside subscribe or unsubscribe.
InFlight(l, x) == l.th[x].pc \in {"write_wait", "locked", "insert"}

\* Mutant of CanWrite: the write guard excludes nobody.
CanWriteAlways(l, x) == TRUE

\* RwLock::write: granted when no guard of either kind is out.
CanWrite(l, x) == l.writer = "none" /\ l.readers = {}

\* RwLock::read: granted when no write guard is out.
CanRead(l) == l.writer = "none"

\* The call of thread x returns: the write guard is dropped and the call is
\* logged; a call made by a handler returns into handle()'s loop.
Finish(l, x, result) ==
    [l EXCEPT !.writer = "none",
              !.th[x].pc = IF x = "pump" THEN "reading" ELSE "idle",
              !.th[x].call = NoCall,
              !.th[x].todo = IF x = "pump" THEN Tail(@) ELSE @,
              !.log = Append(@, [th |-> x, call |-> l.th[x].call,
                                 result |-> result])]

\* A thread calls subscribe or unsubscribe: let mut handlers =
\* self.handlers.write().unwrap() is where it waits.
LockCall ==
    \E x \in Callers, c \in CallChoices :
        /\ lk.ncalls < MaxLockCalls
        /\ lk.th[x].pc = "idle"
        /\ lk' = [lk EXCEPT
                !.th[x].pc = "write_wait",
                !.th[x].call =
                    [c EXCEPT !.f = lk.ncalls + 1,
                              !.conc = \E y \in Callers \ {x} :
                                          /\ InFlight(lk, y)
                                          /\ lk.th[y].call.op = c.op
                                          /\ lk.th[y].call.name = c.name],
                !.ncalls = @ + 1]
        /\ step' = Did(c.op, x, <<c.t, c.name>>, <<"called">>)
        /\ UNCHANGED <<effVars, busVars, snapshots, closed, builder, resources,
                       deferred, tk, popped>>

\* write() returns the guard.
WriteAcquire ==
    \E x \in Threads :
        /\ lk.th[x].pc = "write_wait"
        /\ CanWrite(lk, x)
        /\ lk' = [lk EXCEPT !.writer = x, !.th[x].pc = "locked"]
        /\ step' = Did("write", x, <<>>, <<"guard">>)
        /\ UNCHANGED <<effVars, busVars, snapshots, closed, builder, resources,
                       deferred, tk, popped>>

\* write() called by a thread that holds a read guard of the same lock:
\* std documents that it may panic instead of blocking.  The unwinding
\* drops the read guard and leaves handle().
WriteSelfPanic ==
    \E x \in Threads :
        /\ lk.th[x].pc = "write_wait"
        /\ x \in lk.readers
        /\ lk' = [lk EXCEPT !.readers = @ \ {x},
                            !.th[x] = [IdleThread EXCEPT !.pc = "panicked"],
                            !.log = Append(@, [th |-> x, call |-> lk.th[x].call,
                                               result |-> <<"panic">>])]
        /\ step' = Did("write", x, <<>>, <<"panic">>)
        /\ UNCHANGED <<effVars, busVars, snapshots, closed, builder, resources,
                       deferred, tk, popped>>

\* subscribe under the guard: the search for the name; a name that exists
\* returns the error and drops the guard.
LockCheck ==
    \E x \in Threads :
        /\ lk.th[x].pc = "locked"
        /\ lk.th[x].call.op = "subscribe"
        /\ LET name == lk.th[x].call.name IN
            IF NameExists(registry, name)
            THEN /\ lk' = Finish(lk, x, <<"AlreadyExists", name>>)
                 /\ step' = Did("subscribe", x, <<lk.th[x].call.t, name>>,
                                <<"AlreadyExists", name>>)
            ELSE /\ lk' = [lk EXCEPT !.th[x].pc = "insert"]
                 /\ step' = Did("subscribe", x, <<lk.th[x].call.t, name>>,
                                <<"checked">>)
        /\ UNCHANGED <<effVars, busVars, snapshots, closed, builder, resources,
                       deferred, tk, popped>>

\* subscribe under the guard: the push, Ok(()) and the drop of the guard.
LockInsert ==
    \E x \in Threads :
        /\ lk.th[x].pc = "insert"
        /\ LET c == lk.th[x].call IN
            /\ registry' = EntryPush(registry, c.t,
                               [name |-> c.name, ty |-> c.t,
                                handler |-> [id |-> c.f, body |-> c.body]])
            /\ step' = Did("subscribe", x, <<c.t, c.name>>, <<"Ok">>)
        /\ lk' = Finish(lk, x, <<"Ok">>)
        /\ UNCHANGED <<events, nemit, nsubs>>
        /\ UNCHANGED <<effVars, snapshots, closed, builder, resources,
                       deferred, tk, popped>>

\* unsubscribe under the guard.
LockUnsubscribe ==
    \E x \in Threads :
        /\ lk.th[x].pc = "locked"
        /\ lk.th[x].call.op = "unsubscribe"
        /\ LET r == unsubscribe(registry, lk.th[x].call.name) IN
            /\ registry' = r.reg
            /\ lk' = Finish(lk, x, r.result)
            /\ step' = Did("unsubscribe", x, <<lk.th[x].call.name>>, r.result)
        /\ UNCHANGED <<events, nemit, nsubs>>
        /\ UNCHANGED <<effVars, snapshots, closed, builder, resources,
                       deferred, tk, popped>>

\* The start of handle() on the event pop() returned: read() grants the
\* guard and the Vec of the event's type is looked up; Unregistered returns
\* at once.
ReadAcquire ==
    /\ lk.th["pump"].pc = "idle"
    /\ popped # <<>>
    /\ CanRead(lk)
    /\ LET r == handle(registry, Head(popped)) IN
        /\ lk' = IF r.result = <<"Ok">>
                 THEN [lk EXCEPT !.readers = @ \cup {"pump"},
                                 !.th["pump"].pc = "reading",
                                 !.th["pump"].todo = r.invoked]
                 ELSE lk
        /\ step' = Did("handle", "pump", Head(popped), r)
    /\ popped' = <<>>
    /\ UNCHANGED busVars
    /\ UNCHANGED <<effVars, snapshots, closed, builder, resources,
                   deferred, tk>>

\* for handler in handlers { handler.handle(cx, &event) }: one handler; a
\* body that calls the bus enters subscribe or unsubscribe on this thread.
HandlerRun ==
    /\ lk.th["pump"].pc = "reading"
    /\ lk.th["pump"].todo # <<>>
    /\ LET h == Head(lk.th["pump"].todo) IN
        /\ lk' = IF h.body = "plain"
                 THEN [lk EXCEPT !.th["pump"].todo = Tail(@)]
                 ELSE [lk EXCEPT !.th["pump"].pc = "write_wait",
                                 !.th["pump"].call = NestedCall(h)]
        /\ step' = Did("handler", "pump", <<h.id>>, <<h.body>>)
    /\ UNCHANGED <<effVars, busVars, snapshots, closed, builder, resources,
                   deferred, tk, popped>>

\* handle() returns Ok(()) and the read guard is dropped.
HandleEnd ==
    /\ lk.th["pump"].pc = "reading"
    /\ lk.th["pump"].todo = <<>>
    /\ lk' = [lk EXCEPT !.readers = @ \ {"pump"}, !.th["pump"].pc = "idle"]
    /\ step' = Did("handle_end", "pump", <<>>, <<"Ok">>)
    /\ UNCHANGED <<effVars, busVars, snapshots, closed, builder, resources,
                   deferred, tk, popped>>

----------------------------------------------------------------------------
(* Snapshots of the Model.  A snapshot record: snap the value returned,    *)
(* after the number of mutations the Model had received when it was taken. *)

\* Mutant of into_snapshot: a fresh TestModel instead of a copy.
into_snapshot_fresh(m) == [counter |-> 0]

\* TestModel::into_snapshot: self.clone()
into_snapshot(m) == [counter |-> m]

\* The mutations applied to the Model so far: the executed effects whose
\* closure writes the counter and the direct model_mut writes.
Mutations ==
    direct + Cardinality({x \in 1..Len(executed) : Mutate(Body(executed[x]), 0) # 0})

\* Syzygy::create_snapshot: self.model.into_snapshot()
CreateSnapshot ==
    /\ pc = "idle"
    /\ Len(snapshots) < MaxSnaps
    /\ snapshots' = Append(snapshots,
                           [snap |-> into_snapshot(model), after |-> Mutations])
    /\ step' = Did("create_snapshot", "runtime", <<>>, into_snapshot(model))
    /\ UNCHANGED <<effVars, busVars, closed, builder, resources, deferred,
                   extVars>>

----------------------------------------------------------------------------
(* Teardown of the effect channel: the Runtime, which owns the only        *)
(* EffectReceiver, is dropped while senders are still held by callers and  *)
(* workers.                                                                *)

\* crossbeam Sender::send: Err when every Receiver is gone.
try_send(q, batch, isClosed) ==
    IF isClosed THEN [queue |-> q, result |-> "Err"]
    ELSE [queue |-> send(q, batch), result |-> "Ok"]

\* Result::expect("Effect bus channel unexpectedly closed")
expect(result) == IF result = "Ok" THEN "ok" ELSE "panic"

\* The Runtime is dropped between two calls: the receiver and the batches
\* still queued go with it.
DropRuntime ==
    /\ pc = "idle"
    /\ ~closed
    /\ closed' = TRUE
    /\ queue' = <<>>
    /\ step' = Did("drop", "runtime", <<>>, "ok")
    /\ UNCHANGED <<model, pc, cur, ret, handles, tasks, nextB, ncalls, direct,
                   executed, arrived, pendingAt>>
    /\ UNCHANGED <<busVars, snapshots, builder, resources, deferred,
                   extVars>>

\* EffectSender::dispatch(effects) / DispatchEffect::dispatch on a sender.
SenderDispatch ==
    \E kinds \in InputBatches :
        LET batch == MkBatch(nextB, kinds)
            r == try_send(queue, batch, closed) IN
        /\ ncalls < MaxCalls
        /\ ncalls' = ncalls + 1
        /\ nextB' = nextB + 1
        /\ queue' = r.queue
        /\ arrived' = IF r.result = "Ok" THEN Append(arrived, batch) ELSE arrived
        /\ step' = Did("dispatch", "caller", kinds, expect(r.result))
        /\ UNCHANGED <<model, pc, cur, ret, handles, tasks, direct, executed,
                       pendingAt>>
        /\ UNCHANGED <<busVars, auxVars>>

\* The worker of ThreadTask::perform: (f)(result), then sender.dispatch.
WorkerDispatch ==
    \E t \in 1..Len(tasks) :
        LET batch == MkBatch(nextB, <<"inc">>)
            r == try_send(queue, batch, closed) IN
        /\ tasks[t].pc = "ran"
        /\ tasks' = [tasks EXCEPT
                        ![t].pc = IF r.result = "Ok" THEN "done" ELSE "panicked",
                        ![t].out = IF r.result = "Ok" THEN nextB ELSE 0,
                        ![t].performs = @ + 1]
        /\ nextB' = nextB + 1
        /\ queue' = r.queue
        /\ arrived' = IF r.result = "Ok" THEN Append(arrived, batch) ELSE arrived
        /\ step' = Did("task_dispatch", "worker", t, expect(r.result))
        /\ UNCHANGED <<model, pc, cur, ret, handles, ncalls, direct, executed,
                       pendingAt>>
        /\ UNCHANGED <<busVars, auxVars>>

----------------------------------------------------------------------------
(* Resources.  builder.stage is "building" until build() and "built"       *)
(* after; builder.provided is the history of resource(..) calls.           *)

\* SyzygyBuilder::resource(resource): self.resources.insert(resource); self
BuilderResource ==
    \E t \in ResTypes, v \in ResValues :
        /\ builder.stage = "building"
        /\ Len(builder.provided) < MaxProvide
        /\ resources' = insert(resources, t, v).map
        /\ builder' = [builder EXCEPT !.provided = Append(@, <<t, v>>)]
        /\ step' = Did("builder_resource", "builder", <<t, v>>, "builder")
        /\ UNCHANGED <<effVars, busVars, snapshots, closed, deferred,
                   extVars>>

\* SyzygyBuilder::build()
Build ==
    /\ builder.stage = "building"
    /\ builder' = [builder EXCEPT !.stage = "built"]
    /\ step' = Did("build", "builder", <<>>, "runtime")
    /\ UNCHANGED <<effVars, busVars, snapshots, closed, resources, deferred,
                   extVars>>

\* The thread that owns the built Runtime writes its resources between two
\* calls: syzygy.resources.insert(..) on the pub field, or the
\* ResourceModify capability the Runtime implements.
AddResource ==
    \E t \in ResTypes, v \in ResValues :
        /\ builder.stage = "built"
        /\ pc = "idle"
        /\ resources' = insert(resources, t, v).map
        /\ step' = Did("add_resource", "runtime", <<t, v>>,
                       insert(resources, t, v).result)
        /\ UNCHANGED <<effVars, busVars, snapshots, closed, builder, deferred,
                       extVars>>

\* syzygy.resource::<T>()
ResourceGet ==
    \E t \in ResTypes :
        /\ builder.stage = "built"
        /\ step' = Did("resource", "runtime", t, resource(resources, t))
        /\ UNCHANGED <<effVars, busVars, auxVars>>

\* syzygy.try_resource::<T>()
TryResourceGet ==
    \E t \in ResTypes :
        /\ builder.stage = "built"
        /\ step' = Did("try_resource", "runtime", t, try_resource(resources, t))
        /\ UNCHANGED <<effVars, busVars, auxVars>>

----------------------------------------------------------------------------
(* Deferred.  A record: slot the Option<F> it holds, live whether the      *)
(* value still exists, calls how many times f ran, aborted whether abort   *)
(* consumed it, exit the way it left its scope.                            *)

ExitPaths == {"end_of_scope", "early_return", "unwind"}

\* Option::take
take(d) == [d EXCEPT !.slot = "None"]

\* Drop for Deferred: if let Some(f) = self.0.take() { f(); }
drop(d) ==
    [take(d) EXCEPT !.live = FALSE,
                    !.calls = IF d.slot = "Some" THEN @ + 1 ELSE @]

\* Mutant of abort: the closure is left in the slot.
abort_keeps(d) == drop([d EXCEPT !.aborted = TRUE])

\* Deferred::abort(mut self): self.0.take(), then self is dropped.
abort(d) == drop(take([d EXCEPT !.aborted = TRUE]))

\* defer(f): Deferred(Some(f))
Defer ==
    /\ Len(deferred) < MaxDeferred
    /\ deferred' = Append(deferred, [slot |-> "Some", live |-> TRUE, calls |-> 0,
                                     aborted |-> FALSE, exit |-> "none"])
    /\ step' = Did("defer", "caller", <<>>, Len(deferred) + 1)
    /\ UNCHANGED <<effVars, busVars, snapshots, closed, builder, resources,
                   extVars>>

Abort ==
    \E d \in 1..Len(deferred) :
        /\ deferred[d].live
        /\ deferred' = [deferred EXCEPT ![d] = abort(@)]
        /\ step' = Did("abort", "caller", d, "ok")
        /\ UNCHANGED <<effVars, busVars, snapshots, closed, builder, resources,
                   extVars>>

\* The Deferred goes out of scope: at the end of the block, at an early
\* return or while a panic unwinds.
ScopeExit ==
    \E d \in 1..Len(deferred), path \in ExitPaths :
        /\ deferred[d].live
        /\ deferred' = [deferred EXCEPT ![d] = [drop(@) EXCEPT !.exit = path]]
        /\ step' = Did("scope_exit", "caller", d, path)
        /\ UNCHANGED <<effVars, busVars, snapshots, closed, builder, resources,
                   extVars>>

----------------------------------------------------------------------------
(* ThreadTask and AsyncTask.  tk follows one task: its stage, the closure  *)
(* it holds, the functions given to and_then (history), how it was         *)
(* finished, the batch that carries its effect, the worker that ran it,    *)
(* the functions that worker ran in order, the output, and what the        *)
(* perform callback received.                                              *)

MaxThen == 2

\* The functions given to and_then; they do not commute.
TaskFns == {"double", "add3"}

\* The task's own function and the and_then functions, applied to a value.
Apply(f, v) ==
    CASE f = "one" -> 1
      [] f = "double" -> 2 * v
      [] f = "add3" -> v + 3

NoTask ==
    [stage |-> "none", flavour |-> "thread", closure |-> [kind |-> "none"],
     gs |-> <<>>, finish |-> "none", b |-> 0, unit |-> 0, trace |-> <<>>,
     value |-> 0, got |-> <<>>]

\* ThreadTask::new / AsyncTask::new: inner = Some(Box::new(f))
new(f) == [kind |-> "new", f |-> f]

RECURSIVE and_then_inner(_, _)
\* Mutant of and_then: the new function is applied first, under the ones
\* already chained.
and_then_inner(c, g) ==
    IF c.kind = "new"
    THEN [kind |-> "then", task |-> c, f |-> g]
    ELSE [kind |-> "then", task |-> and_then_inner(c.task, g), f |-> c.f]

\* and_then: move |ctx| { let result = (task)(ctx); (*f)(result) }
and_then(c, g) == [kind |-> "then", task |-> c, f |-> g]

RECURSIVE call(_)
\* Calling the boxed closure: the output and the functions run, in order.
call(c) ==
    IF c.kind = "new"
    THEN [value |-> Apply(c.f, 0), trace |-> <<c.f>>]
    ELSE LET r == call(c.task) IN
         [value |-> Apply(c.f, r.value), trace |-> Append(r.trace, c.f)]

RECURSIVE depth(_)
\* The number of functions a boxed closure runs.
depth(c) == IF c.kind = "new" THEN 1 ELSE 1 + depth(c.task)

RECURSIVE call_n(_, _)
\* The call of the boxed closure after n of its functions have returned:
\* the innermost n, with the output and the functions run so far.
call_n(c, n) == IF depth(c) <= n THEN call(c) ELSE call_n(c.task, n)

\* perform's worker: let effects = (f)(result), with
\* f = |_| Effects::from(increment).
perform(value) == [got |-> <<value>>, effects |-> <<"inc">>]

\* Mutant of done: the worker dispatches an increment.
done_increments(value) == [got |-> <<>>, effects |-> <<"inc">>]

\* done's worker: let _ = task.call(..).await; sender.dispatch(Effects::none())
done(value) == [got |-> <<>>, effects |-> <<>>]

\* ThreadTask::new, AsyncTask::new, or Effects::task, which wraps
\* AsyncTask::new(task) in an UnfinishedAsyncEffects.
TaskNew ==
    \E fl \in {"thread", "async", "unfinished"} :
        /\ tk.stage = "none"
        /\ tk' = [NoTask EXCEPT !.stage = "built", !.flavour = fl,
                                !.closure = new("one")]
        /\ step' = Did("task_new", "caller", fl, "ok")
        /\ UNCHANGED <<effVars, busVars, snapshots, closed, builder, resources,
                       deferred, lk, popped>>

\* ThreadTask::and_then, AsyncTask::and_then; UnfinishedAsyncEffects has
\* no and_then.
TaskAndThen ==
    \E g \in TaskFns :
        /\ tk.stage = "built"
        /\ tk.flavour \in {"thread", "async"}
        /\ Len(tk.gs) < MaxThen
        /\ tk' = [tk EXCEPT !.closure = and_then(@, g), !.gs = Append(@, g)]
        /\ step' = Did("and_then", "caller", g, "ok")
        /\ UNCHANGED <<effVars, busVars, snapshots, closed, builder, resources,
                       deferred, lk, popped>>

\* ThreadTask::perform, AsyncTask::perform, Unfinished*Effects::perform: the
\* effect is built, nothing runs yet.
TaskPerform ==
    /\ tk.stage = "built"
    /\ tk' = [tk EXCEPT !.stage = "effect", !.finish = "perform"]
    /\ step' = Did("perform", "caller", <<>>, "ok")
    /\ UNCHANGED <<effVars, busVars, snapshots, closed, builder, resources,
                   deferred, lk, popped>>

\* UnfinishedAsyncEffects::done
TaskDone ==
    /\ tk.stage = "built"
    /\ tk.flavour = "unfinished"
    /\ tk' = [tk EXCEPT !.stage = "effect", !.finish = "done"]
    /\ step' = Did("done", "caller", <<>>, "ok")
    /\ UNCHANGED <<effVars, busVars, snapshots, closed, builder, resources,
                   deferred, lk, popped>>

\* DispatchEffect::dispatch of the effect perform or done returned.
DispatchTask ==
    /\ tk.stage = "effect"
    /\ ncalls < MaxCalls
    /\ Enqueue(MkBatch(nextB, <<"spawn">>))
    /\ tk' = [tk EXCEPT !.stage = "queued", !.b = nextB]
    /\ step' = Did("dispatch", "caller", <<"spawn">>, "ok")
    /\ UNCHANGED <<model, pc, cur, ret, handles, tasks, direct, executed,
                   pendingAt>>
    /\ UNCHANGED <<busVars, snapshots, closed, builder, resources, deferred,
                   lk, popped>>

\* The spawned unit calls the closure: (task)(async_ctx) or
\* task.call(async_ctx).await.  One step is one function of the chain: the
\* unit runs next to the Runtime thread, and between two functions of an
\* async chain lies an .await.
TaskCall ==
    \E t \in 1..Len(tasks) :
        /\ tasks[t].pc = "spawned"
        /\ tasks[t].by.b = tk.b
        /\ LET n == Len(tk.trace) + 1
               r == call_n(tk.closure, n)
               last == (n = depth(tk.closure)) IN
            /\ tk' = [tk EXCEPT !.stage = IF last THEN "ran" ELSE "running",
                                !.unit = t,
                                !.trace = r.trace, !.value = r.value]
            /\ step' = Did("task_call", "worker", t, r.value)
            /\ tasks' = [tasks EXCEPT
                            ![t].pc = IF last THEN "ran" ELSE "spawned",
                            ![t].runs = IF n = 1 THEN @ + 1 ELSE @]
        /\ UNCHANGED <<model, queue, pc, cur, ret, handles, nextB, ncalls,
                       direct, executed, arrived, pendingAt>>
        /\ UNCHANGED <<busVars, snapshots, closed, builder, resources, deferred,
                       lk, popped>>

\* The spawned unit after the call: the perform callback and its dispatch,
\* or done's dispatch of Effects::none().
TaskFinish ==
    \E t \in 1..Len(tasks) :
        /\ tasks[t].pc = "ran"
        /\ tasks[t].by.b = tk.b
        /\ LET r == IF tk.finish = "perform" THEN perform(tk.value)
                                              ELSE done(tk.value)
               batch == MkBatch(nextB, r.effects) IN
            /\ tk' = [tk EXCEPT !.stage = "finished", !.got = r.got]
            /\ queue' = send(queue, batch)
            /\ arrived' = Append(arrived, batch)
            /\ step' = Did("task_dispatch", "worker", t, r.effects)
        /\ nextB' = nextB + 1
        /\ tasks' = [tasks EXCEPT ![t].pc = "done", ![t].out = nextB,
                                  ![t].performs = IF tk.finish = "perform"
                                                  THEN @ + 1 ELSE @]
        /\ UNCHANGED <<model, pc, cur, ret, handles, ncalls, direct, executed,
                       pendingAt>>
        /\ UNCHANGED <<busVars, snapshots, closed, builder, resources, deferred,
                       lk, popped>>

----------------------------------------------------------------------------

EffInit ==
    /\ model = 0
    /\ queue = <<>>
    /\ pc = "idle"
    /\ cur = <<>>
    /\ ret = <<>>
    /\ handles = <<>>
    /\ tasks = <<>>
    /\ nextB = 1
    /\ ncalls = 0
    /\ direct = 0
    /\ executed = <<>>
    /\ arrived = <<>>
    /\ pendingAt = <<>>

BusInit ==
    /\ registry = <<>>
    /\ events = <<>>
    /\ nemit = 0
    /\ nsubs = 0

AuxInit ==
    /\ snapshots = <<>>
    /\ closed = FALSE
    /\ resources = <<>>
    /\ deferred = <<>>
    /\ tk = NoTask
    /\ popped = <<>>
    /\ lk = NoLock

Init ==
    /\ EffInit
    /\ BusInit
    /\ AuxInit
    /\ builder = [stage |-> "built", provided |-> <<>>]
    /\ step = Did("build", "runtime", <<>>, "ok")

Next ==
    \/ Dispatch
    \/ Trigger
    \/ DispatchSync
    \/ DropHandle
    \/ Recv
    \/ ModelMut
    \/ HandleEffects
    \/ NextBatch
    \/ CallEffect
    \/ SyncSend
    \/ PushFollowUp
    \/ TaskRun
    \/ TaskDispatch

Spec == Init /\ [][Next]_vars

BusNext ==
    \/ Subscribe
    \/ Unsubscribe
    \/ Emit
    \/ Pop
    \/ PumpEvent

BusSpec == Init /\ [][BusNext]_vars

\* The Runtime thread writing the Model and taking snapshots.
SnapNext ==
    \/ ModelMut
    \/ Trigger
    \/ HandleEffects
    \/ NextBatch
    \/ CallEffect
    \/ PushFollowUp
    \/ CreateSnapshot

SnapSpec == Init /\ [][SnapNext]_vars

\* Senders and workers around a Runtime that may be dropped.
CloseNext ==
    \/ SenderDispatch
    \/ ~closed /\ HandleEffects
    \/ ~closed /\ NextBatch
    \/ ~closed /\ CallEffect
    \/ ~closed /\ PushFollowUp
    \/ TaskRun
    \/ WorkerDispatch
    \/ DropRuntime

CloseSpec == Init /\ [][CloseNext]_vars

\* SyzygyBuilder::default()
BuilderInit ==
    /\ EffInit
    /\ BusInit
    /\ AuxInit
    /\ builder = [stage |-> "building", provided |-> <<>>]
    /\ step = Did("builder", "builder", <<>>, "ok")

\* The builder, then the Runtime it built.
ResNext ==
    \/ BuilderResource
    \/ Build
    \/ ResourceGet
    \/ TryResourceGet
    \/ AddResource
    \/ builder.stage = "built" /\ ModelMut
    \/ builder.stage = "built" /\ DispatchProvide
    \/ builder.stage = "built" /\ Trigger
    \/ builder.stage = "built" /\ Emit
    \/ builder.stage = "built" /\ TaskRun
    \/ builder.stage = "built" /\ TaskDispatch
    \/ builder.stage = "built" /\ HandleEffects
    \/ builder.stage = "built" /\ NextBatch
    \/ builder.stage = "built" /\ CallEffect
    \/ builder.stage = "built" /\ PushFollowUp

ResSpec == BuilderInit /\ [][ResNext]_vars

DeferNext ==
    \/ Defer
    \/ Abort
    \/ ScopeExit

DeferSpec == Init /\ [][DeferNext]_vars

\* Callers of dispatch_sync, some of them on the Runtime thread itself.
SyncNext ==
    \/ ~closed /\ DispatchSync
    \/ DropHandle
    \/ Recv
    \/ RuntimeRecv
    \/ HandleEffects
    \/ NextBatch
    \/ CallEffect
    \/ SyncSend
    \/ PushFollowUp

SyncSpec == Init /\ [][SyncNext]_vars

\* One task, built, chained, finished with perform or done, dispatched and
\* run, next to direct writes of the Runtime.
TaskNext ==
    \/ ModelMut
    \/ TaskNew
    \/ TaskAndThen
    \/ TaskPerform
    \/ TaskDone
    \/ DispatchTask
    \/ HandleEffects
    \/ NextBatch
    \/ CallEffect
    \/ PushFollowUp
    \/ TaskCall
    \/ TaskFinish

TaskSpec == Init /\ [][TaskNext]_vars

\* Threads that subscribe and unsubscribe while another pumps the bus.
LockNext ==
    \/ LockCall
    \/ WriteAcquire
    \/ WriteSelfPanic
    \/ LockCheck
    \/ LockInsert
    \/ LockUnsubscribe
    \/ Emit
    \/ lk.th["pump"].pc = "idle" /\ Pop
    \/ ReadAcquire
    \/ HandlerRun
    \/ HandleEnd

LockSpec == Init /\ [][LockNext]_vars

\* How many batches a behaviour of LoopSpec numbers before it is cut off.
MaxLoop == 5

\* A drain fed by an effect that always returns a follow-up and by
\* concurrent producers; the behaviour is cut off after MaxLoop batches.
LoopNext ==
    \/ DispatchLoop
    \/ Dispatch
    \/ HandleEffects
    \/ NextBatch
    \/ nextB <= MaxLoop /\ CallEffect
    \/ PushFollowUp

LoopSpec == Init /\ [][LoopNext]_vars

\* Batches of two task effects, their workers and the drain.
RaceNext ==
    \/ DispatchSpawns
    \/ HandleEffects
    \/ NextBatch
    \/ CallEffect
    \/ PushFollowUp
    \/ TaskRun
    \/ TaskDispatch

RaceSpec == Init /\ [][RaceNext]_vars

\* The steps of the Runtime thread inside handle_effects.
DrainStep == NextBatch \/ CallEffect \/ PushFollowUp

\* A drain without concurrent producers: callers and workers act only while
\* the Runtime is outside handle_effects.
DrainNext ==
    \/ pc = "idle" /\ Dispatch
    \/ pc = "idle" /\ Trigger
    \/ pc = "idle" /\ TaskRun
    \/ pc = "idle" /\ TaskDispatch
    \/ HandleEffects
    \/ NextBatch
    \/ CallEffect
    \/ PushFollowUp

\* The Runtime thread, once inside handle_effects, keeps executing it.
DrainSpec == Init /\ [][DrainNext]_vars /\ WF_vars(DrainStep)

----------------------------------------------------------------------------
(* Properties of the effect queue and the drain loop (Spec).               *)

IsPrefix(s, t) == Len(s) <= Len(t) /\ s = SubSeq(t, 1, Len(s))

Before(x) == {executed[y] : y \in 1..(x - 1)}

\* The effects of the batch being iterated that have not started.
Remaining == IF pc \in {"sync_send", "ret"} THEN Tail(cur) ELSE cur

Pending == Range(Remaining) \cup Range(Flatten(queue))

InDrain == {"next_batch", "return", "call_effect", "sync_send", "push_follow_up"}

Increments ==
    Cardinality({x \in 1..Len(executed) : Body(executed[x]) \in {"inc", "trigger"}})

\* C1: the effects run by handle_effects are the batches in the order they
\* reached the queue (dispatched batches and follow-ups, each at the moment
\* it was appended), each batch's effects in insertion order.
C1_ExecutionIsArrivalOrder ==
    /\ IsPrefix(executed, Flatten(arrived))
    /\ \A x \in 1..Len(executed) :
          \/ executed[x].i = 1
          \/ /\ x > 1
             /\ executed[x - 1].b = executed[x].b
             /\ executed[x - 1].i = executed[x].i - 1

\* Three batches or more reached the queue, a two-effect batch and a
\* follow-up among them, and all of them have run.
C1_Witness ==
    /\ \E n \in 1..Len(pendingAt) : \E e \in Range(executed) : e.b = pendingAt[n].b
    /\ \E e \in Range(executed) : e.i = 2
    /\ Len(arrived) >= 3
    /\ executed = Flatten(arrived)

\* C2: when an effect returns a non-empty follow-up batch F, every effect
\* that remained in its own batch and every effect of the batches queued at
\* that moment runs before any effect of F.
C2_FollowUpAfterAllQueued ==
    \A n \in 1..Len(pendingAt) : \A x \in 1..Len(executed) :
        executed[x].b = pendingAt[n].b => pendingAt[n].pending \subseteq Before(x)

\* A follow-up has run that was returned while a peer of its effect and
\* another batch were still waiting.
C2_Witness ==
    \E n \in 1..Len(pendingAt) :
        /\ \E e \in pendingAt[n].pending : e.b = pendingAt[n].by.b
        /\ \E e \in pendingAt[n].pending : e.b # pendingAt[n].by.b
        /\ \E e \in Range(executed) : e.b = pendingAt[n].b

\* C3: a batch sits in the queue whole, as it was built, and its effects run
\* as one contiguous stretch: no effect of another batch runs between two
\* effects of the same batch.
C3_BatchesAtomicAndContiguous ==
    /\ \A n \in 1..Len(queue) : queue[n] \in Range(arrived)
    /\ \A x, z \in 1..Len(executed) :
          (x < z /\ executed[x].b = executed[z].b)
              => \A y \in x..z : executed[y].b = executed[x].b

\* Both effects of a batch have run; the first of them returned a follow-up,
\* and a batch built after that follow-up reached the queue before it: it
\* was dispatched while the Runtime was between the two effects.  It has run
\* as well.
C3_Witness ==
    \E n \in 1..Len(pendingAt), x \in 1..Len(executed) :
        /\ pendingAt[n].by.i = 1
        /\ executed[x].b = pendingAt[n].by.b
        /\ executed[x].i = 2
        /\ \E m, f \in 1..Len(arrived) :
              /\ m < f
              /\ arrived[f] # <<>>
              /\ arrived[f][1].b = pendingAt[n].b
              /\ arrived[m] # <<>>
              /\ arrived[m][1].b > pendingAt[n].b
              /\ arrived[m][1] \in Range(executed)

\* C4: when the Runtime has left handle_effects, the queue was seen empty and
\* every batch that reached the queue, follow-ups included, has been run.
C4_ReturnMeansDrained ==
    (pc = "idle" /\ step.op \in InDrain)
        => (step.op = "return" /\ queue = <<>> /\ executed = Flatten(arrived))

\* handle_effects has returned after running a follow-up of a follow-up, the
\* first of them returned by the only effect of the last queued batch.
C4_Witness ==
    /\ pc = "idle"
    /\ step.op = "return"
    /\ \E n, m \in 1..Len(pendingAt) :
          /\ pendingAt[n].by.b = pendingAt[m].b
          /\ pendingAt[m].pending = {}
          /\ \E e \in Range(executed) : e.b = pendingAt[n].b

\* C5: no effect runs twice, no effect that reached the queue is lost (it has
\* run or is still waiting), and the counter is the number of increments run
\* plus the direct model_mut increments.
C5_ExactlyOnce ==
    /\ \A x, y \in 1..Len(executed) : executed[x] = executed[y] => x = y
    /\ Range(Flatten(arrived)) = Range(executed) \cup Pending
    /\ Range(executed) \cap Pending = {}
    /\ model = Increments + direct

\* Two single-effect dispatches of increment, one handle_effects: counter 2.
C5_Witness ==
    /\ step.op = "return"
    /\ Len(arrived) = 2
    /\ \A n \in 1..Len(arrived) : Len(arrived[n]) = 1 /\ arrived[n][1].kind = "inc"
    /\ direct = 0
    /\ model = 2

Wrapped(h) == {e \in Range(executed) : e.kind = "sync" /\ e.h = h}

\* C6: a dispatch_sync handle is completed only when its effect has run, and
\* once the wrapper has returned a handle that was not dropped is completed;
\* a waiter that has received sees the effect's increment.
C6_SyncCompletesAfterEffect ==
    \A h \in 1..Len(handles) :
        /\ handles[h].sent => Wrapped(h) # {}
        /\ (/\ Wrapped(h) # {}
            /\ ~(pc = "sync_send" /\ Head(cur).h = h)
            /\ handles[h].rx # "dropped") => handles[h].sent
        /\ (handles[h].rx = "received" /\ \E e \in Wrapped(h) : e.inner = "inc")
              => model >= 1

\* The waiter has received after handle_effects ran the wrapped increment.
C6_Witness ==
    /\ step.op = "recv"
    /\ \E h \in 1..Len(handles) :
          /\ handles[h].rx = "received"
          /\ \E e \in Wrapped(h) : e.inner = "inc"
    /\ model = 1

\* C7: the Model changes only in steps of the Runtime thread: an effect called
\* inside handle_effects or a direct model_mut.  dispatch, trigger,
\* dispatch_sync, task bodies and completion callbacks leave it as it is.
C7_SingleWriter ==
    [][model' # model =>
          (step'.actor = "runtime" /\ step'.op \in {"call_effect", "model_mut"})]_vars

\* A worker's completion batch, a triggered closure and a dispatched batch
\* have been run by the Runtime.
C7_Witness ==
    /\ \E t \in 1..Len(tasks) :
          /\ tasks[t].out # 0
          /\ \E e \in Range(executed) : e.b = tasks[t].out
    /\ \E e \in Range(executed) : e.kind = "trigger"
    /\ model >= 2

\* The effects run so far that belong to completion batches of workers.
TaskEffects ==
    {x \in 1..Len(executed) : \E t \in 1..Len(tasks) : executed[x].b = tasks[t].out}

\* C14: the effect of ThreadTask::perform returns an empty follow-up; the
\* batch f(result) reaches the queue only after the inner function has
\* completed; its effects run after the effect that spawned the worker, and
\* when handle_effects returns the Model holds the completion effects of the
\* workers that had dispatched by then and of no other.
C14_CompletionAfterTaskRan ==
    /\ (step.op = "call_effect" /\ Body(step.arg) = "spawn")
          => (step.result = <<>> /\ ret = <<>>)
    /\ \A t \in 1..Len(tasks) :
          /\ tasks[t].out # 0 => tasks[t].runs = 1
          /\ tasks[t].out # 0 => MkBatch(tasks[t].out, <<"inc">>) \in Range(arrived)
          /\ \A x \in 1..Len(executed) :
                executed[x].b = tasks[t].out => tasks[t].by \in Before(x)
    /\ step.op = "return"
          => Cardinality(TaskEffects)
                = Cardinality({t \in 1..Len(tasks) : tasks[t].out # 0})

\* test_thread_task: handle_effects has returned after running the completion
\* batch of a worker, and the counter shows its increment.
C14_Witness ==
    /\ step.op = "return"
    /\ \E t \in 1..Len(tasks) :
          /\ tasks[t].pc = "done"
          /\ \E e \in Range(executed) : e.b = tasks[t].out
    /\ model = 1

SpawnEffects == {e \in Range(executed) : Body(e) = "spawn"}

\* C15: every executed perform effect has one worker, no worker belongs to two
\* effects, a worker runs its inner function at most once and applies the
\* perform callback at most once, after the inner function; a worker that is
\* done ran both once and put one batch in the queue.
C15_TaskConsumedOnce ==
    /\ {tasks[t].by : t \in 1..Len(tasks)} = SpawnEffects
    /\ Len(tasks) = Cardinality(SpawnEffects)
    /\ \A t \in 1..Len(tasks) :
          /\ tasks[t].runs <= 1
          /\ tasks[t].performs <= tasks[t].runs
          /\ tasks[t].pc \in {"spawned", "ran", "done"}
          /\ tasks[t].pc = "spawned" <=> tasks[t].runs = 0
          /\ tasks[t].pc = "done" <=> tasks[t].performs = 1
          /\ tasks[t].pc = "done"
                => Cardinality({n \in 1..Len(arrived) :
                                  arrived[n] = MkBatch(tasks[t].out, <<"inc">>)}) = 1
          /\ \A u \in 1..Len(tasks) :
                (u # t /\ tasks[t].out # 0) => tasks[u].out # tasks[t].out

\* Two perform effects were executed; both workers are done and both
\* completion batches have run.
C15_Witness ==
    /\ Len(tasks) = 2
    /\ \A t \in 1..Len(tasks) :
          /\ tasks[t].pc = "done"
          /\ \E e \in Range(executed) : e.b = tasks[t].out
    /\ model = 2

\* C21: entering handle_effects changes nothing but the position of the
\* Runtime, and when the Runtime polls an empty queue its next step is the
\* return: no effect runs and the Model, the queue, the workers and the
\* resources are as they were.
C21_EmptyDrainIsNoOp ==
    [][/\ step'.op = "handle_effects"
          => UNCHANGED <<model, queue, executed, arrived, tasks, resources>>
       /\ (pc = "poll" /\ queue = <<>> /\ step'.actor = "runtime")
          => /\ step'.op = "return"
             /\ pc' = "idle"
             /\ UNCHANGED <<model, queue, executed, arrived, tasks, resources,
                            cur, ret>>]_vars

\* handle_effects has returned on a queue that never held a batch, with the
\* Model as model_mut left it.
C21_Witness ==
    /\ step.op = "return"
    /\ arrived = <<>>
    /\ executed = <<>>
    /\ direct = 1
    /\ model = 1

\* The wrapped effect of handle h is still in the queue.
Queued(h) == \E e \in Range(Flatten(queue)) : e.kind = "sync" /\ e.h = h

\* C22: a handle is completed only by the Runtime's send that follows the
\* wrapped effect inside handle_effects.  A Runtime thread that waits on a
\* handle whose effect is still queued stays parked for ever: the handle is
\* never completed and no effect runs.  A waiter on another thread whose
\* wait returns receives only after the Runtime has run the effect, and a
\* handle still held when the wrapper sends is completed by that send.
C22_OnlyTheDrainCompletesAHandle ==
    [][/\ \A h \in 1..Len(handles) :
            /\ (handles'[h].sent /\ ~handles[h].sent)
                  => /\ step'.op = "sync_send"
                     /\ step'.actor = "runtime"
                     /\ pc = "sync_send"
                     /\ Wrapped(h) # {}
            /\ (handles[h].rx = "awaited" /\ ~handles[h].sent)
                  => /\ Queued(h)'
                     /\ handles'[h] = handles[h]
                     /\ pc' = "blocked"
                     /\ executed' = executed
            /\ (step'.op = "sync_send" /\ step'.arg = h /\ handles[h].rx = "held")
                  => handles'[h].sent
       /\ (step'.op = "blocking_recv" /\ step'.result = "blocked")
            => Queued(step'.arg)
       /\ (step'.op = "recv" /\ step'.actor = "caller" /\ step'.result = "ok")
            => Wrapped(step'.arg) # {}]_vars

\* The Runtime thread is parked on a handle whose effect is still queued,
\* after a waiter on another thread was released by an earlier drain.
C22_Witness ==
    /\ pc = "blocked"
    /\ \E h \in 1..Len(handles) :
          /\ handles[h].rx = "awaited"
          /\ ~handles[h].sent
          /\ Queued(h)
    /\ \E h \in 1..Len(handles) :
          /\ handles[h].rx = "received"
          /\ Wrapped(h) # {}

\* The receiver of handle h was dropped before the wrapper could send.
Lost(h) == handles[h].rx = "dropped" /\ ~handles[h].sent

\* C23: when the handle of a dispatch_sync was dropped before its effect was
\* drained, the effect still runs, once; the failed send leaves the loop
\* where a successful one would, with the effect's follow-up in hand; and
\* when handle_effects returns the follow-up has been enqueued and run.
C23_DroppedHandleDoesNotDisturbTheDrain ==
    \A h \in 1..Len(handles) :
        Lost(h) =>
            /\ Cardinality({n \in 1..Len(executed) :
                    executed[n].kind = "sync" /\ executed[n].h = h}) <= 1
            /\ (step = Did("sync_send", "runtime", h, "err"))
                  => /\ pc = "ret"
                     /\ cur # <<>> /\ Head(cur).h = h /\ Head(cur) \in Wrapped(h)
                     /\ (ret = <<>>) = (FollowUp(Head(cur).inner) = <<>>)
            /\ step.op = "return"
                  => /\ Cardinality(Wrapped(h)) = 1
                     /\ \A e \in Wrapped(h) :
                           FollowUp(e.inner) # <<>>
                              => \E n \in 1..Len(pendingAt) :
                                    /\ pendingAt[n].by = e
                                    /\ \E x \in Range(executed) :
                                          x.b = pendingAt[n].b

\* handle_effects has returned after running a wrapped chain whose handle
\* had been dropped: the send failed, the follow-up increment still ran.
C23_Witness ==
    /\ step.op = "return"
    /\ model = 1
    /\ \E h \in 1..Len(handles) :
          /\ Lost(h)
          /\ \E e \in Wrapped(h) : e.inner = "chain"

\* C34: the handle tells that the wrapped effect has run, not that what it
\* returned has.  The send leaves the follow-up in the Runtime's hand: the
\* queue is as it was and the follow-up batch has not arrived; it is pushed
\* by the next step, when a handle that was still held is already complete.
C34_HandleCompletesBeforeFollowUp ==
    [][/\ step'.op = "sync_send"
          => /\ ret' = ret
             /\ queue' = queue
             /\ arrived' = arrived
             /\ (ret = <<>>) = (FollowUp(Head(cur).inner) = <<>>)
             /\ ret # <<>>
                   => /\ \A n \in 1..Len(arrived') : arrived'[n] # ret
                      /\ \A e \in Range(executed') : e.b # ret[1].b
       /\ (/\ step'.op = "push_follow_up"
           /\ Head(cur).kind = "sync"
           /\ handles[Head(cur).h].rx # "dropped")
          => handles[Head(cur).h].sent]_vars

\* The waiter has received the completion of a wrapped chain while the
\* increment the chain returned has not run: the counter is still 0.
C34_Witness ==
    /\ step.op = "recv"
    /\ model = 0
    /\ \E h \in 1..Len(handles) :
          /\ handles[h].rx = "received"
          /\ \E e \in Wrapped(h) :
                /\ e.inner = "chain"
                /\ \A n \in 1..Len(pendingAt) :
                      pendingAt[n].by = e
                          => \A x \in Range(executed) : x.b # pendingAt[n].b

\* An effect that always returns a follow-up is waiting, in the queue, in
\* the batch being iterated or in the batch just returned.
LoopAlive ==
    \E e \in Range(Remaining) \cup Range(ret) \cup Range(Flatten(queue)) :
        e.kind = "loop"

\* C35: handle_effects leaves only through a poll that finds the queue
\* empty.  While an effect that always returns a follow-up is waiting, a
\* Runtime inside handle_effects stays inside and such an effect is still
\* waiting after every step; and a poll that finds a batch, whoever put it
\* there, does not return.
C35_DrainIsUnbounded ==
    [][/\ (pc # "idle" /\ LoopAlive) => (pc' # "idle" /\ LoopAlive')
       /\ (pc = "poll" /\ queue # <<>>) => pc' # "idle"
       /\ (pc # "idle" /\ pc' = "idle")
            => (step'.op = "return" /\ queue = <<>>)]_vars

\* The Runtime is inside handle_effects and has run the self-returning
\* effect three times, the third of them waiting again.
C35_Witness ==
    /\ pc # "idle"
    /\ LoopAlive
    /\ Cardinality({n \in 1..Len(executed) : executed[n].kind = "loop"}) >= 3

\* The places of the queue's history where the completion batch of worker t
\* arrived, and the places of the execution log where its effect ran.
ArrivedAt(t) ==
    {n \in 1..Len(arrived) : arrived[n] = MkBatch(tasks[t].out, <<"inc">>)}

RanAt(t) == {x \in 1..Len(executed) : executed[x].b = tasks[t].out}

\* C36: a worker's completion batch reaches the queue once, when the worker
\* dispatches it, so the batches of two workers arrive and run in the order
\* the workers finished, whatever the order of their spawn effects; each
\* runs at most once, and once when handle_effects has returned after it
\* arrived; the counter is then the number of completions.
C36_CompletionOrderNotSpawnOrder ==
    /\ \A t \in 1..Len(tasks) :
          IF tasks[t].pc = "done"
          THEN /\ Cardinality(ArrivedAt(t)) = 1
               /\ Cardinality(RanAt(t)) <= 1
               /\ step.op = "return" => Cardinality(RanAt(t)) = 1
          ELSE tasks[t].out = 0
    /\ \A t, u \in 1..Len(tasks) :
          (tasks[t].pc = "done" /\ tasks[u].pc = "done"
             /\ tasks[t].out < tasks[u].out)
          => /\ \A n \in ArrivedAt(t), m \in ArrivedAt(u) : n < m
             /\ \A x \in RanAt(t), y \in RanAt(u) : x < y
    /\ step.op = "return"
          => model = Cardinality({t \in 1..Len(tasks) : tasks[t].pc = "done"})

\* Two batches of two task effects each: the workers of one finished in the
\* order they were spawned, those of the other in the opposite order; all
\* four increments have run.
C36_Witness ==
    /\ step.op = "return"
    /\ model = 4
    /\ \E t, u \in 1..Len(tasks) :
          /\ t < u
          /\ tasks[t].by.b = tasks[u].by.b
          /\ tasks[t].out < tasks[u].out
    /\ \E t, u \in 1..Len(tasks) :
          /\ t < u
          /\ tasks[t].by.b = tasks[u].by.b
          /\ tasks[u].out < tasks[t].out

\* C24: with finite follow-up chains and no producer dispatching during the
\* drain, a handle_effects that was entered returns, and at its return the
\* queue is empty.
C24_DrainTerminates ==
    (pc # "idle") ~> (pc = "idle" /\ step.op = "return" /\ queue = <<>>)

\* handle_effects has returned after a chain of three generations: chain2,
\* its follow-up batch of chain and increment, and the chain's increment.
C24_Witness ==
    /\ pc = "idle"
    /\ step.op = "return"
    /\ queue = <<>>
    /\ \E e \in Range(executed) : e.kind = "chain2"
    /\ Len(executed) = 4
    /\ model = 2

RECURSIVE Chain(_, _)
\* gs applied to v from left to right.
Chain(gs, v) == IF gs = <<>> THEN v ELSE Chain(Tail(gs), Apply(Head(gs), v))

\* C26: and_then touches neither the queue nor the workers nor the Model and
\* runs nothing.  When the task is performed, one spawned unit runs the
\* original function and then the and_then functions, one after the other
\* in the order they were chained, each on the output of the one before,
\* and the perform callback receives the last one's output.
C26_AndThenComposesLeftToRight ==
    [][/\ step'.op = "and_then"
          => /\ UNCHANGED <<model, queue, pc, tasks, executed, arrived, nextB>>
             /\ tk'.trace = <<>>
       /\ tk'.trace # tk.trace
          => /\ step'.op = "task_call"
             /\ step'.actor = "worker"
             /\ tk'.gs = tk.gs
             /\ tk'.trace = SubSeq(<<"one">> \o tk.gs, 1, Len(tk.trace) + 1)
             /\ tk'.value = Chain(SubSeq(tk.gs, 1, Len(tk.trace)),
                                  Apply("one", 0))
             /\ tk.trace # <<>> => tk'.unit = tk.unit
             /\ Cardinality({t \in 1..Len(tasks') : tasks'[t].by.b = tk.b}) = 1
       /\ tk'.stage = "ran"
          => /\ tk'.trace = <<"one">> \o tk'.gs
             /\ tk'.value = Chain(tk'.gs, Apply("one", 0))
       /\ (tk'.stage = "finished" /\ tk'.finish = "perform")
          => tk'.got = <<Chain(tk'.gs, Apply("one", 0))>>]_vars

\* new(one).and_then(double).and_then(add3).perform(f): f received 5.
C26_Witness ==
    /\ tk.stage = "finished"
    /\ tk.finish = "perform"
    /\ tk.gs = <<"double", "add3">>
    /\ tk.trace = <<"one", "double", "add3">>
    /\ tk.got = <<5>>

\* C27: a task finished with done() hands its output to nobody; its worker
\* dispatches nothing before the task has run and exactly one batch after,
\* an empty one; draining that batch runs no effect and the Model is what
\* the direct writes made it.
C27_DoneDispatchesOneEmptyBatch ==
    tk.finish = "done" =>
        /\ tk.got = <<>>
        /\ tk.stage \in {"effect", "queued", "ran"} => Len(arrived) <= 1
        /\ tk.stage = "finished"
              => arrived = <<MkBatch(tk.b, <<"spawn">>), <<>>>>
        /\ \A e \in Range(executed) : e.kind = "spawn" /\ e.b = tk.b
        /\ Len(executed) <= 1
        /\ model = direct

\* handle_effects has returned after draining the empty batch of a task
\* whose output 1 was discarded; the Model holds the one direct write.
C27_Witness ==
    /\ tk.finish = "done"
    /\ tk.stage = "finished"
    /\ tk.value = 1
    /\ step.op = "return"
    /\ queue = <<>>
    /\ Len(arrived) = 2
    /\ direct = 1
    /\ model = 1

----------------------------------------------------------------------------
(* Properties of the event bus registry (BusSpec).                         *)


\* C8: no two subscriptions share a name, under the same event type or under
\* different ones.
C8_NamesGloballyUnique ==
    \A k1, k2 \in DOMAIN registry :
        \A n1 \in 1..Len(registry[k1]), n2 \in 1..Len(registry[k2]) :
            registry[k1][n1].name = registry[k2][n2].name => (k1 = k2 /\ n1 = n2)

\* A subscribe was refused for a name held under another event type.
C8_Witness ==
    /\ step.op = "subscribe"
    /\ step.result[1] = "AlreadyExists"
    /\ \E k \in DOMAIN registry :
          /\ k # step.arg[1]
          /\ \E n \in 1..Len(registry[k]) : registry[k][n].name = step.result[2]
    /\ \A k \in EventTypes : k \in DOMAIN registry /\ registry[k] # <<>>

\* The name subscribe::<t>(nameOpt, ..) registers.
GivenName(t, nameOpt) == IF nameOpt = "None" THEN TypeName(t) ELSE nameOpt

HasName(name) ==
    \E k \in DOMAIN registry : \E n \in 1..Len(registry[k]) : registry[k][n].name = name

\* C9: subscribe with a name that exists anywhere in the registry returns
\* AlreadyExists(name) and leaves the registry as it was: no handler added, no
\* event-type entry created, no order changed.
C9_DuplicateSubscribeChangesNothing ==
    [][\A t \in EventTypes, nameOpt \in NameOpts :
          (/\ step'.op = "subscribe"
           /\ step'.arg = <<t, nameOpt>>
           /\ HasName(GivenName(t, nameOpt)))
          => (/\ step'.result = <<"AlreadyExists", GivenName(t, nameOpt)>>
              /\ registry' = registry)]_vars

\* A subscribe for an event type that has no entry was refused.
C9_Witness ==
    /\ step.op = "subscribe"
    /\ step.result[1] = "AlreadyExists"
    /\ step.arg[1] \notin DOMAIN registry
    /\ registry # <<>>

\* C28: a subscribe without a name registers its handler under the type
\* name of the event type.  While a subscription with that name exists, a
\* subscribe without a name for the same type, and a subscribe for any type
\* with that name given explicitly, return AlreadyExists with the type name
\* and change nothing.
C28_UnnamedUsesTheTypeName ==
    [][\A t \in EventTypes :
          /\ (/\ step'.op = "subscribe"
              /\ step'.arg = <<t, "None">>
              /\ step'.result = <<"Ok">>)
             => /\ ~HasName(TypeName(t))
                /\ t \in DOMAIN registry'
                /\ registry'[t][Len(registry'[t])].name = TypeName(t)
                /\ registry'[t][Len(registry'[t])].handler = nsubs'
          /\ (/\ step'.op = "subscribe"
              /\ HasName(TypeName(t))
              /\ \/ step'.arg = <<t, "None">>
                 \/ step'.arg[2] = TypeName(t))
             => /\ step'.result = <<"AlreadyExists", TypeName(t)>>
                /\ registry' = registry]_vars

\* Both event types have a subscription under their type name (for B only
\* an unnamed subscribe can have made it), and a subscribe for B with the
\* explicit name "app::A" was refused.
C28_Witness ==
    /\ step = Did("subscribe", "bus", <<"B", "app::A">>, <<"AlreadyExists", "app::A">>)
    /\ \A t \in EventTypes :
          /\ t \in DOMAIN registry
          /\ \E n \in 1..Len(registry[t]) : registry[t][n].name = TypeName(t)

\* vec without its n-th element.
Without(vec, n) == SubSeq(vec, 1, n - 1) \o SubSeq(vec, n + 1, Len(vec))

\* C10: unsubscribe(name) returns HandlerNotFound(name) exactly when no
\* subscription has that name, and then the registry is unchanged; otherwise
\* it returns Ok and the registry loses that subscription and no other.
C10_UnsubscribeRemovesExactlyThatName ==
    [][\A name \in Names :
          (step'.op = "unsubscribe" /\ step'.arg = name)
          => IF HasName(name)
             THEN /\ step'.result = <<"Ok">>
                  /\ DOMAIN registry' = DOMAIN registry
                  /\ \E k \in DOMAIN registry : \E n \in 1..Len(registry[k]) :
                        /\ registry[k][n].name = name
                        /\ registry'[k] = Without(registry[k], n)
                        /\ \A j \in DOMAIN registry \ {k} : registry'[j] = registry[j]
             ELSE /\ step'.result = <<"HandlerNotFound", name>>
                  /\ registry' = registry]_vars

\* An unsubscribe succeeded and left both event types with a subscription.
C10_Witness ==
    /\ step.op = "unsubscribe"
    /\ step.result = <<"Ok">>
    /\ \A k \in EventTypes : k \in DOMAIN registry /\ registry[k] # <<>>

\* How many times closure f ran in a handle call.
Runs(invoked, f) == Cardinality({n \in 1..Len(invoked) : invoked[n] = f})

\* C11 as stated: an event emitted while s was subscribed is delivered to
\* s.handler when the bus is pumped.
C11_EmittedWhileSubscribedIsDelivered ==
    step.op = "handle"
        => \A f \in step.arg.subs : Runs(step.result.invoked, f) >= 1

\* C11: delivery is decided when the event is handled.  A closure subscribed
\* to the event's type at that moment runs once; a closure that was never
\* subscribed to that type or whose subscription was removed before the
\* handle call does not run, even if it was subscribed when the event was
\* emitted.
C11_DeliveredIffSubscribedWhenHandled ==
    step.op = "handle"
        => \A f \in 1..nsubs :
              Runs(step.result.invoked, f)
                  = IF f \in Subscribed(registry, step.arg.ty) THEN 1 ELSE 0

\* An event was handled after one of the closures subscribed at its emit was
\* unsubscribed: another closure subscribed at its emit ran, that one did not.
C11_Witness ==
    /\ step.op = "handle"
    /\ \E f, g \in step.arg.subs :
          /\ Runs(step.result.invoked, f) = 0
          /\ Runs(step.result.invoked, g) = 1

\* C12 as stated: handle on an event whose type has no subscriber returns
\* Unregistered(type name) and runs no handler, also when the type had
\* subscribers that were all unsubscribed.
C12_NoSubscriberMeansUnregistered ==
    (step.op = "handle" /\ Subscribed(registry, step.arg.ty) = {})
        => /\ step.result.result = <<"Unregistered", TypeName(step.arg.ty)>>
           /\ step.result.invoked = <<>>

\* C13: the handlers of an event type stay in the order they were
\* subscribed, whatever was subscribed or unsubscribed in between, and a
\* handle call runs each of them once in that order.
C13_RegistrationOrder ==
    /\ \A k \in DOMAIN registry : \A n, m \in 1..Len(registry[k]) :
          n < m => registry[k][n].handler < registry[k][m].handler
    /\ (step.op = "handle" /\ step.result.result = <<"Ok">>)
          => step.result.invoked
                = [n \in 1..Len(registry[step.arg.ty]) |-> registry[step.arg.ty][n].handler]

\* Two handlers ran in subscription order after a handler subscribed between
\* them was unsubscribed.
C13_Witness ==
    /\ step.op = "handle"
    /\ Len(step.result.invoked) = 2
    /\ \E f \in 1..nsubs :
          /\ \A k \in EventTypes : f \notin Subscribed(registry, k)
          /\ step.result.invoked[1] < f
          /\ f < step.result.invoked[2]

\* C29: handlers are kept under the event type they were subscribed for, and
\* handling an event runs only closures subscribed under the event's type,
\* each of them for the type of the payload; no closure subscribed for
\* another type runs.
C29_RoutedByTypeIdentity ==
    /\ \A k \in DOMAIN registry : \A n \in 1..Len(registry[k]) :
          registry[k][n].ty = k
    /\ step.op = "handle"
          => /\ \A f \in Range(step.result.invoked) :
                   /\ step.arg.ty \in DOMAIN registry
                   /\ \E n \in 1..Len(registry[step.arg.ty]) :
                         /\ registry[step.arg.ty][n].handler = f
                         /\ registry[step.arg.ty][n].ty = step.arg.payload
             /\ \A k \in DOMAIN registry \ {step.arg.ty} :
                   \A n \in 1..Len(registry[k]) :
                       registry[k][n].handler \notin Range(step.result.invoked)

\* An event of type A was handled and ran A's closure while a closure
\* subscribed for B stayed idle.
C29_Witness ==
    /\ step.op = "handle"
    /\ step.arg.ty = "A"
    /\ step.result.invoked # <<>>
    /\ "B" \in DOMAIN registry
    /\ registry["B"] # <<>>

\* C33: emit appends the event to the channel and does nothing else: the
\* registry is as it was and no closure runs.  What runs is decided when the
\* event pop() returned is handled: exactly the closures subscribed to its
\* type then, so a
\* closure subscribed after the emit runs and one unsubscribed after the emit
\* does not.
C33_DeliveryDecidedAtHandleTime ==
    [][/\ step'.op = "emit"
          => /\ registry' = registry
             /\ Len(events') = Len(events) + 1
             /\ SubSeq(events', 1, Len(events)) = events
             /\ events'[Len(events')].ty = step'.arg
             /\ step'.result = <<"Ok">>
       /\ step'.op = "handle"
          => LET ev == Head(popped)
                 now == Subscribed(registry, ev.ty) IN
             /\ step'.arg = ev
             /\ Range(step'.result.invoked) = now
             /\ \A f \in now \ ev.subs : Runs(step'.result.invoked, f) = 1
             /\ \A f \in ev.subs \ now : Runs(step'.result.invoked, f) = 0]_vars

\* An event was handled after a closure subscribed at its emit had been
\* unsubscribed and another had been subscribed: the later one ran, the
\* earlier one did not.
C33_Witness ==
    /\ step.op = "handle"
    /\ \E f \in Range(step.result.invoked) : f \notin step.arg.subs
    /\ \E g \in step.arg.subs : g \notin Range(step.result.invoked)

----------------------------------------------------------------------------
(* Properties of the registry lock (LockSpec).                             *)

\* C31 as stated: a subscribe or unsubscribe call issued in any state, a
\* handler running inside handle() included, completes.  In a finite run: a
\* call that waits for the write guard never waits behind a read guard of
\* its own thread, which that thread drops only after the call has returned.
C31_CallsNeverBlockForever ==
    \A x \in Threads : lk.th[x].pc = "write_wait" => x \notin lk.readers

\* The completed calls n of the log that are op(name) with result Ok.
OkCalls(op, name) ==
    {n \in 1..Len(lk.log) : /\ lk.log[n].call.op = op
                            /\ lk.log[n].call.name = name
                            /\ lk.log[n].result = <<"Ok">>}

\* C32: the search for the name and the push happen under one write guard:
\* no two handlers of the registry share a name, and among the subscribe
\* calls for one name, taken in the order they completed, two are Ok only
\* with an Ok unsubscribe of that name between them and one is refused only
\* after an Ok one that no unsubscribe undid.  Two concurrent subscribes of
\* one name therefore end with exactly one Ok and one AlreadyExists.
C32_SubscribeIsAtomic ==
    /\ \A k1, k2 \in DOMAIN registry :
          \A n1 \in 1..Len(registry[k1]), n2 \in 1..Len(registry[k2]) :
              registry[k1][n1].name = registry[k2][n2].name
                  => (k1 = k2 /\ n1 = n2)
    /\ \A j \in 1..Len(lk.log) :
          LET name == lk.log[j].call.name
              before == {i \in OkCalls("subscribe", name) : i < j}
              undone(i) == \E u \in OkCalls("unsubscribe", name) : i < u /\ u < j
          IN
          (lk.log[j].call.op = "subscribe" /\ lk.log[j].result # <<"panic">>) =>
              /\ lk.log[j].result \in {<<"Ok">>, <<"AlreadyExists", name>>}
              /\ lk.log[j].result = <<"Ok">>
                    => \A i \in before : undone(i)
              /\ lk.log[j].result = <<"AlreadyExists", name>>
                    => \E i \in before : ~undone(i)

\* Two threads were inside subscribe with the same name for different event
\* types at the same time; the one that called second finished first with
\* Ok and the other was refused.
C32_Witness ==
    /\ Len(lk.log) = 2
    /\ lk.log[1].call.op = "subscribe"
    /\ lk.log[2].call.op = "subscribe"
    /\ lk.log[1].call.name = lk.log[2].call.name
    /\ lk.log[1].call.t # lk.log[2].call.t
    /\ lk.log[1].call.conc
    /\ lk.log[1].result = <<"Ok">>
    /\ lk.log[2].result = <<"AlreadyExists", lk.log[2].call.name>>

----------------------------------------------------------------------------
(* Properties of snapshots (SnapSpec), teardown (CloseSpec), resources     *)
(* (ResSpec) and Deferred (DeferSpec).                                     *)

\* C16: create_snapshot() returns the Model's state at that moment, which
\* after N increments is the counter N, and a snapshot keeps that value
\* whatever is written to the Model afterwards.
C16_SnapshotIsStateWhenTaken ==
    /\ \A n \in 1..Len(snapshots) :
          snapshots[n].snap = [counter |-> snapshots[n].after]
    /\ step.op = "create_snapshot" => step.result = [counter |-> model]

\* A snapshot taken after one mutation still shows 1 when the Model, written
\* by an effect and by model_mut since, has moved on.
C16_Witness ==
    /\ \E n \in 1..Len(snapshots) :
          /\ snapshots[n].snap.counter = 1
          /\ model > 1
    /\ \E e \in Range(executed) : Body(e) = "trigger"
    /\ direct >= 1

\* C17 as stated: a dispatch attempted after the effect queue was torn down
\* reports ChannelClosed / RuntimeStopped to its caller.
C17_DispatchAfterTeardownReturnsError ==
    (closed /\ step.op \in {"dispatch", "task_dispatch"})
        => step.result \in {"ChannelClosed", "RuntimeStopped"}

\* The resource types given to the builder more than once.
Duplicated ==
    {t \in ResTypes :
        \E n, m \in 1..Len(builder.provided) :
            n < m /\ builder.provided[n][1] = t /\ builder.provided[m][1] = t}

\* C18 as stated: giving the builder a second resource of a type it already
\* has is an error at build time: no Runtime comes out of a builder that was
\* given two resources of one type.
C18_DuplicateResourceIsAnError ==
    builder.stage = "built" => Duplicated = {}

\* The values given to the builder for resource type t.
Supplied(t) ==
    {builder.provided[n][2] :
        n \in {m \in 1..Len(builder.provided) : builder.provided[m][1] = t}}

\* C19 as stated: in a built Runtime, whatever it has run since,
\* try_resource::<T>()
\* is None when no resource of type T was given to the builder and otherwise
\* Some of a value given for T (the value, when T was given once), and
\* resource::<T>() returns that value without panicking.
C19_ResourcesFixedAtBuild ==
    builder.stage = "built" =>
        /\ \A t \in ResTypes :
              IF Supplied(t) = {}
              THEN try_resource(resources, t) = <<"None">>
              ELSE /\ try_resource(resources, t)[1] = "Some"
                   /\ try_resource(resources, t)[2] \in Supplied(t)
                   /\ resource(resources, t) = try_resource(resources, t)[2]
        /\ step.op = "try_resource" => step.result = try_resource(resources, step.arg)
        /\ (step.op = "resource" /\ Supplied(step.arg) # {})
              => step.result \in Supplied(step.arg)

\* C20: the closure of a Deferred has not run while the value is live; once
\* the value is gone it has run exactly once, or not at all if abort
\* consumed it, whichever way the value left its scope.
C20_DeferredRunsOnceUnlessAborted ==
    \A d \in 1..Len(deferred) :
        /\ deferred[d].live => (deferred[d].calls = 0 /\ deferred[d].slot = "Some")
        /\ ~deferred[d].live =>
              /\ deferred[d].slot = "None"
              /\ deferred[d].calls = IF deferred[d].aborted THEN 0 ELSE 1

\* One Deferred was aborted, one was dropped by a panic unwinding and one at
\* an early return.
C20_Witness ==
    \E a, b, c \in 1..Len(deferred) :
        /\ deferred[a].aborted /\ ~deferred[a].live
        /\ deferred[b].exit = "unwind" /\ deferred[b].calls = 1
        /\ deferred[c].exit = "early_return" /\ deferred[c].calls = 1

====
